---------------------------- MODULE Spec2Model ----------------------------
(***************************************************************************)
(* State-machine model of UploaderClient (src/src/UploaderClient.ts,       *)
(* the throttled, sequential XHR engine at lines 263-810) together with    *)
(* formatHashFromApi (src/unnamed/part_002).                               *)
(*                                                                         *)
(* One action is one run-to-completion step of the JavaScript event loop:  *)
(* a public method call (upload, abort, onprogress, unsubscribe), or the   *)
(* settlement of an awaited operation together with the continuation of    *)
(* upload() up to its next await.  Strings that the code inspects (hashes) *)
(* are sequences of characters; error values are records carrying the      *)
(* message text the code constructs.                                       *)
(***************************************************************************)
EXTENDS Integers, Sequences, FiniteSets, TLC

\* ------------------------------------------------------------------ bounds
MaxFileSize == 3
MaxChunkSize == 4
MaxTime == 4
MaxCalls == 2
MaxLen == 3

\* The configured throttle values (cfgAny.progressReportIntervalMs and
\* cfgAny.progressReportBytes), scaled to the model's clock and file sizes.
progressIntervalMs == 2
progressBytesThreshold == 2

\* ------------------------------------------------------------- vocabulary
Initializing == "initializing"
Uploading == "uploading"
Finishing == "finishing"
Error == "error"
Done == "done"

UploadState == {Initializing, Uploading, Finishing, Error, Done}

NoCb == "none"
Observers == {"cb1"}

\* Observer callbacks that throw whenever they are invoked.
RaisingObservers == {"cb2"}

Raises(cb) == cb \in RaisingObservers

Contents == {"A", "B"}

\* config.alg || DEFAULT_HASH_ALG, as a character sequence
DEFAULT_HASH_ALG == <<"s">>

Max(a, b) == IF a >= b THEN a ELSE b
Min(a, b) == IF a <= b THEN a ELSE b

\* Math.ceil(a / b) for a >= 0 and b # 0 (-0 counts as 0)
Ceil(a, b) == IF b > 0 THEN (a + b - 1) \div b ELSE -(a \div (-b))

VARIABLES
    pc,                      \* position of the upload() call
    fileSize,                \* file.size
    fileContent,             \* identity of the bytes of the file
    size,                    \* the requested chunk size argument
    hasFinalize,             \* whether config.onFinalize is set
    aborted,                 \* this.aborted
    abortController,         \* "none" | "fresh" | "aborted" (its signal)
    listeners,               \* chunk indices whose onAbort is on the signal
    progressCallback,        \* this.progressCallback
    lastProgress,            \* this.lastProgress
    lastProgressReportTime,  \* this.lastProgressReportTime
    lastReportedUploaded,    \* this.lastReportedUploaded
    now,                     \* Date.now()
    sha256,                  \* the locally computed checksum
    upload_id,               \* the identifier put into the endpoint URLs
    i,                       \* loop index of upload()
    progressPerChunk,        \* the per-chunk progress vector
    requests,                \* chunk requests issued, in order
    xhrState,                \* how the request of each chunk ended
    finishCalls,             \* number of finish requests issued
    finishUrl,               \* identifier in the URL of the finish request
    hash,                    \* the local `hash` of upload()
    response,                \* the parsed body of the finish response
    hookCalls,               \* arguments of the onFinalize invocations
    hookState,               \* "none" | "pending" | "resolved" | "rejected"
    pendingError,            \* rejection whose continuation has not run yet
    outcome,                 \* settlement of upload()
    abortedInCall,           \* phases of this call in which abort() ran
    atAbort,                 \* lastProgress when abort() first ran in it
    recorded,                \* snapshots recorded by the latest step
    delivered,               \* snapshots handed to the observer by it
    escaped,                 \* an observer exception left a public method
    overwrite,               \* the overwrite argument of upload()
    callNo,                  \* number of upload() calls made on the client
    prevCall,                \* content and identifier of the previous call
    chunkFailStatus,         \* non-2xx status that failed a chunk, or 0
    finishStatus,            \* status of the finish response, or 0
    handles,                 \* observers whose unsubscribe handle is held
    myCall,                  \* which upload() call created the local signal
    fetchCall,               \* whose controller the finish fetch listens to
    uploaded                 \* the local `uploaded` of the legacy upload()

vars == <<pc, fileSize, fileContent, size, hasFinalize, aborted,
          abortController, listeners, progressCallback, lastProgress,
          lastProgressReportTime, lastReportedUploaded, now, sha256, i,
          progressPerChunk, requests, xhrState, finishCalls, hash,
          response, hookCalls, pendingError, outcome, abortedInCall, atAbort,
          recorded, delivered, upload_id, finishUrl,
          fetchCall, hookState, escaped,
          overwrite, callNo, prevCall, chunkFailStatus, finishStatus,
          handles, myCall, uploaded>>


\* ------------------------------------------------------------ pure helpers

\* isUploadSingleChunk ? file.size : size
ChunkSizeOf(sz, F) == IF sz = -1 \/ sz >= F THEN F ELSE sz

NumChunks_FloorPlusOne(sz, F) == F \div ChunkSizeOf(sz, F) + 1

\* Math.ceil(file.size / chunkSize)
NumChunks(sz, F) == Ceil(F, ChunkSizeOf(sz, F))

\* Lines 706-709: new Array(chunks) throws a RangeError unless chunks is a
\* non-negative integer.  A chunk size of 0 makes chunks NaN (0 / 0) or
\* Infinity, a negative chunk size makes it negative or -0.
ArrayThrows(sz, F) ==
    \/ ChunkSizeOf(sz, F) = 0
    \/ ChunkSizeOf(sz, F) < 0 /\ NumChunks(sz, F) < 0

\* const start = i * chunkSize
ChunkStart(k, sz, F) == k * ChunkSizeOf(sz, F)

ChunkEnd_NoClamp(k, sz, F) == ChunkStart(k, sz, F) + ChunkSizeOf(sz, F)

\* const end = Math.min(file.size, start + chunkSize)
ChunkEnd(k, sz, F) == Min(F, ChunkStart(k, sz, F) + ChunkSizeOf(sz, F))

\* const chunkLength = end - start
ChunkLength(k, sz, F) == ChunkEnd(k, sz, F) - ChunkStart(k, sz, F)

RECURSIVE SumTo(_, _)
SumTo(f, n) == IF n = 0 THEN 0 ELSE f[n - 1] + SumTo(f, n - 1)

\* progressPerChunk.reduce((a, b) => a + b, 0)
Sum(f) == SumTo(f, Cardinality(DOMAIN f))

\* hash.startsWith(prefix)
StartsWith(h, prefix) ==
    /\ Len(h) >= Len(prefix)
    /\ SubSeq(h, 1, Len(prefix)) = prefix

formatHashFromApi_AlwaysStrip(h, alg) ==
    LET prefix == alg \o <<"=">>
    IN  SubSeq(h, Len(prefix) + 1, Len(h))

formatHashFromApi(h, alg) ==
    LET prefix == alg \o <<"=">>
    IN  IF StartsWith(h, prefix)
        THEN SubSeq(h, Len(prefix) + 1, Len(h))
        ELSE h

\* computeHash: base64 text of the digest of the content (the digest
\* primitive is opaque: an injective table over the modelled contents)
Digest(c) == IF c = "A" THEN <<"a", "Q">> ELSE <<"b", "Q">>

OtherContent(c) == IF c = "A" THEN "B" ELSE "A"

\* ------------------------------------------------------------------ errors
NoError == [msg |-> "", wrapped |-> FALSE]
Err(m) == [msg |-> m, wrapped |-> FALSE]

ErrChecksum == Err("Failed to calculate checksum")
ErrChunkStatus == Err("Chunk upload failed with status")
ErrNetwork == Err("Network error during upload")
ErrAborted == Err("Upload aborted")
ErrAbortedDuringChunk == Err("Upload aborted during chunk upload")
ErrSend == Err("xhr.send threw")
ErrFinishStatus == Err("Failed to finish upload. Checksum mismatch or server error.")
ErrNoHash == Err("No hash returned from server")
ErrLength == Err("Uploaded length mismatch after upload")
ErrMismatch == Err("Checksum mismatch after upload")
ErrFetchAbort == Err("AbortError")
ErrFetchNetwork == Err("TypeError: Failed to fetch")
ErrJson == Err("SyntaxError")
ErrHook == Err("onFinalize rejected")
ErrRange == Err("RangeError: Invalid array length")

\* new Error("Failed to upload file: " + err)
Wrap(e) == [msg |-> e.msg, wrapped |-> TRUE]

\* ------------------------------------------------------- progress reports
Snap(u, t, st) == [uploaded |-> u, total |-> t, state |-> st]

NoSnap == Snap(-1, -1, "none")

importantStates == {Initializing, Finishing, Done, Error}

\* The aggregator fields a handler threads through its reportProgress calls.
Agg0 ==
    [last |-> lastProgress, time |-> lastProgressReportTime,
     bytes |-> lastReportedUploaded, rec |-> <<>>, del |-> <<>>,
     threw |-> FALSE]

reportProgressWith_Strict(cb, a, st, force) ==
    LET a1 == [a EXCEPT !.last = st, !.rec = Append(@, st)]
        timeSinceLast == now - a.time
        bytesSinceLast == Max(0, st.uploaded - a.bytes)
        shouldReport ==
            \/ force
            \/ st.state \in importantStates
            \/ timeSinceLast > progressIntervalMs
            \/ bytesSinceLast > progressBytesThreshold
    IN  IF cb = NoCb \/ ~shouldReport
        THEN a1
        ELSE IF Raises(cb)
        THEN [a1 EXCEPT !.del = Append(@, st)]
        ELSE [a1 EXCEPT !.del = Append(@, st), !.time = now,
                        !.bytes = st.uploaded]

reportProgressWith_RecordIfObserved(cb, a, st, force) ==
    LET a1 == [a EXCEPT !.last = st, !.rec = Append(@, st)]
        timeSinceLast == now - a.time
        bytesSinceLast == Max(0, st.uploaded - a.bytes)
        shouldReport ==
            \/ force
            \/ st.state \in importantStates
            \/ timeSinceLast >= progressIntervalMs
            \/ bytesSinceLast >= progressBytesThreshold
    IN  IF cb = NoCb
        THEN [a EXCEPT !.rec = Append(@, st)]
        ELSE IF ~shouldReport
        THEN a1
        ELSE IF Raises(cb)
        THEN [a1 EXCEPT !.del = Append(@, st)]
        ELSE [a1 EXCEPT !.del = Append(@, st), !.time = now,
                        !.bytes = st.uploaded]

reportProgressWith_NoCatch(cb, a, st, force) ==
    LET a1 == [a EXCEPT !.last = st, !.rec = Append(@, st)]
        timeSinceLast == now - a.time
        bytesSinceLast == Max(0, st.uploaded - a.bytes)
        shouldReport ==
            \/ force
            \/ st.state \in importantStates
            \/ timeSinceLast >= progressIntervalMs
            \/ bytesSinceLast >= progressBytesThreshold
    IN  IF cb = NoCb \/ ~shouldReport
        THEN a1
        ELSE IF Raises(cb)
        THEN [a1 EXCEPT !.del = Append(@, st), !.threw = TRUE]
        ELSE [a1 EXCEPT !.del = Append(@, st), !.time = now,
                        !.bytes = st.uploaded]

\* Lines 321-361 with observer cb registered.  The throttle fields are
\* updated after the callback returned (lines 356-357): a callback that
\* throws leaves them as they were, and the catch of lines 358-360 keeps
\* the exception inside.
reportProgressWith(cb, a, st, force) ==
    LET a1 == [a EXCEPT !.last = st, !.rec = Append(@, st)]
        timeSinceLast == now - a.time
        bytesSinceLast == Max(0, st.uploaded - a.bytes)
        shouldReport ==
            \/ force
            \/ st.state \in importantStates
            \/ timeSinceLast >= progressIntervalMs
            \/ bytesSinceLast >= progressBytesThreshold
    IN  IF cb = NoCb \/ ~shouldReport
        THEN a1
        ELSE IF Raises(cb)
        THEN [a1 EXCEPT !.del = Append(@, st)]
        ELSE [a1 EXCEPT !.del = Append(@, st), !.time = now,
                        !.bytes = st.uploaded]

\* this.reportProgress(state, force)
reportProgress(a, st, force) ==
    reportProgressWith(progressCallback, a, st, force)

Commit(a) ==
    /\ lastProgress' = a.last
    /\ lastProgressReportTime' = a.time
    /\ lastReportedUploaded' = a.bytes
    /\ recorded' = a.rec
    /\ delivered' = a.del
    /\ escaped' = (escaped \/ a.threw)

\* ---------------------------------------------------------------- settling
NoOutcome == [kind |-> "pending", error |-> NoError, value |-> <<>>]

Reject(e) ==
    /\ pc' = "rejected"
    /\ outcome' = [kind |-> "rejected", error |-> e, value |-> <<>>]

Resolve(h) ==
    /\ pc' = "resolved"
    /\ outcome' = [kind |-> "resolved", error |-> NoError, value |-> h]


\* No request has been issued to the URL.
NoUrl == [id |-> <<>>, create |-> FALSE]

UploadUrl_AlwaysCreate(id, ow) == [id |-> id, create |-> TRUE]

\* Lines 686-693: the upload endpoint with the identifier substituted, and
\* create=1 added to its query when overwrite === false.
UploadUrl(id, ow) == [id |-> id, create |-> (ow = FALSE)]

\* Line 695: the finish endpoint with the identifier substituted.
FinishUrl(id) == [id |-> id, create |-> FALSE]

\* No earlier upload() call was made on the client.
NoCall == [content |-> "none", id |-> <<>>]

\* No finish response has been parsed.
NoData == [hasHash |-> FALSE, hash |-> <<>>, hasLength |-> FALSE,
           length |-> 0, parsed |-> FALSE]

\* --------------------------------------------------------- initial states
\* A constructed client (fields as initialised at lines 275-298) and the
\* arguments of the upload() call it is about to receive.
Init ==
    /\ pc = "idle"
    /\ fileSize \in 1..MaxFileSize
    /\ fileContent \in Contents
    /\ size \in {-1} \cup (1..MaxChunkSize)
    /\ hasFinalize \in BOOLEAN
    /\ aborted = FALSE
    /\ abortController = "none"
    /\ listeners = {}
    /\ progressCallback = NoCb
    /\ lastProgress = Snap(0, 0, Initializing)
    /\ lastProgressReportTime = 0
    /\ lastReportedUploaded = 0
    /\ now = progressIntervalMs + 1
    /\ sha256 = <<>>
    /\ upload_id = <<>>
    /\ i = 0
    /\ progressPerChunk = <<>>
    /\ requests = <<>>
    /\ xhrState = <<>>
    /\ finishCalls = 0
    /\ finishUrl = NoUrl
    /\ hash = <<>>
    /\ response = NoData
    /\ hookCalls = <<>>
    /\ hookState = "none"
    /\ pendingError = NoError
    /\ outcome = NoOutcome
    /\ abortedInCall = {}
    /\ atAbort = NoSnap
    /\ recorded = <<>>
    /\ delivered = <<>>
    /\ escaped = FALSE
    /\ overwrite = FALSE
    /\ callNo = 0
    /\ prevCall = NoCall
    /\ chunkFailStatus = 0
    /\ finishStatus = 0
    /\ handles = {}
    /\ myCall = 0
    /\ fetchCall = 0
    /\ uploaded = 0

historyVars == <<abortedInCall, atAbort>>
inputVars == <<fileSize, fileContent, size, hasFinalize, overwrite, callNo,
               prevCall, myCall, uploaded>>
observerVars == <<progressCallback, now, handles>>
callVars == <<sha256, upload_id, i, progressPerChunk, requests, xhrState,
              finishCalls, finishUrl,
              fetchCall, hash, response, hookCalls, hookState,
              pendingError, chunkFailStatus, finishStatus>>

\* ------------------------------------------------------------- upload()

NoRange == [present |-> FALSE, first |-> 0, last |-> 0]

RangeHeader_Exclusive(k, sz, F) ==
    IF NumChunks(sz, F) > 1
    THEN [present |-> TRUE, first |-> ChunkStart(k, sz, F),
          last |-> ChunkEnd(k, sz, F)]
    ELSE NoRange

\* Lines 719-726: headers["Range"] = `bytes=${start}-${end - 1}` when the
\* plan has more than one chunk.
RangeHeader(k, sz, F) ==
    IF NumChunks(sz, F) > 1
    THEN [present |-> TRUE, first |-> ChunkStart(k, sz, F),
          last |-> ChunkEnd(k, sz, F) - 1]
    ELSE NoRange

\* Lines 647-670: reset the abort state, report Initializing, await
\* computeHash.
Upload ==
    /\ pc = "idle"
    /\ aborted' = FALSE
    /\ abortController' = "fresh"
    /\ listeners' = {}
    /\ Commit(reportProgress(Agg0, Snap(0, fileSize, Initializing), TRUE))
    /\ pc' = "hashing"
    /\ abortedInCall' = {}
    /\ atAbort' = NoSnap
    /\ callNo' = callNo + 1
    /\ myCall' = callNo + 1
    /\ UNCHANGED <<fileSize, fileContent, size, hasFinalize, overwrite,
                   prevCall, uploaded, observerVars, callVars, outcome>>

\* Lines 754-764: the check after the loop, when this.aborted is set.
AbortedAfterLoop(ppc, a) ==
    /\ Commit(reportProgress(a, Snap(Sum(ppc), fileSize, Error), TRUE))
    /\ Reject(ErrAbortedDuringChunk)

StartFinish_NoReport(a) ==
    /\ Commit(a)
    /\ finishCalls' = finishCalls + 1
    /\ finishUrl' = FinishUrl(upload_id')
    /\ fetchCall' = callNo
    /\ pc' = "finishFetch"
    /\ UNCHANGED outcome

\* Lines 766-786: report Finishing and issue the finish request.
StartFinish(a) ==
    /\ Commit(reportProgress(a, Snap(fileSize, fileSize, Finishing), TRUE))
    /\ finishCalls' = finishCalls + 1
    /\ finishUrl' = FinishUrl(upload_id')
    /\ fetchCall' = callNo
    /\ pc' = "finishFetch"
    /\ UNCHANGED outcome

\* Lines 416-429 and 571-588, with the catch of lines 739-751: the request
\* of chunk k is sent, or xhr.send throws.
StartChunk(k, ppc, xs, ls, a, sendThrows) ==
    IF sendThrows
    THEN LET s == Snap(Sum(ppc), fileSize, Error)
         IN  /\ Commit(reportProgress(reportProgress(a, s, TRUE), s, TRUE))
             /\ Reject(ErrSend)
             /\ listeners' = ls
             /\ xhrState' = [xs EXCEPT ![k] = "sendthrew"]
             /\ UNCHANGED requests
    ELSE /\ Commit(a)
         /\ pc' = "sending"
         /\ listeners' = ls \cup {k}
         /\ xhrState' = [xs EXCEPT ![k] = "pending"]
         /\ requests' = Append(requests,
                [url |-> UploadUrl(upload_id', overwrite),
                 range |-> RangeHeader(k, size, fileSize),
                 index |-> k,
                 start |-> ChunkStart(k, size, fileSize),
                 end |-> ChunkEnd(k, size, fileSize)])
         /\ UNCHANGED outcome

LoopGuard_SkipsLast(k) == k < NumChunks(size, fileSize) - 1 /\ ~aborted

LoopGuard_NoAbortCheck(k) == k < NumChunks(size, fileSize)

\* Lines 711-712: the loop condition and the abort check at its top.
LoopGuard(k) == k < NumChunks(size, fileSize) /\ ~aborted

\* Lines 711-786: upload() from the top of iteration k to its next await.
EnterLoop(k, ppc, xs, ls, a, sendThrows) ==
    /\ i' = k
    /\ progressPerChunk' = ppc
    /\ IF LoopGuard(k)
       THEN /\ StartChunk(k, ppc, xs, ls, a, sendThrows)
            /\ UNCHANGED <<finishCalls, finishUrl, fetchCall>>
       ELSE /\ xhrState' = xs
            /\ listeners' = ls
            /\ UNCHANGED requests
            /\ IF aborted
               THEN AbortedAfterLoop(ppc, a)
                    /\ UNCHANGED <<finishCalls, finishUrl, fetchCall>>
               ELSE StartFinish(a)

ComputeHashResolves_SizeInId(sendThrows) ==
    /\ pc = "hashing"
    /\ sha256' = Digest(fileContent)
    /\ upload_id' = sha256' \o (IF size = -1 THEN <<"w">> ELSE <<"c">>)
    /\ LET n == NumChunks(size, fileSize)
           a == reportProgress(Agg0, Snap(0, fileSize, Uploading), TRUE)
       IN  EnterLoop(0, [k \in 0..(n - 1) |-> 0],
                     [k \in 0..(n - 1) |-> "unsent"], listeners, a,
                     sendThrows)
    /\ UNCHANGED <<inputVars, observerVars, aborted, abortController,
                   hash, response, chunkFailStatus, finishStatus, hookCalls,
                   hookState, pendingError, historyVars>>

\* Lines 675 and 684-709: computeHash resolved.  An exception of line 709
\* is outside every try block of upload() and rejects the call as it is.
ComputeHashResolves(sendThrows) ==
    /\ pc = "hashing"
    /\ sha256' = Digest(fileContent)
    /\ upload_id' = sha256'
    /\ IF ArrayThrows(size, fileSize)
       THEN /\ Commit(reportProgress(Agg0, Snap(0, fileSize, Uploading),
                                     TRUE))
            /\ Reject(ErrRange)
            /\ UNCHANGED <<i, progressPerChunk, requests, xhrState,
                           listeners, finishCalls, finishUrl, fetchCall>>
       ELSE LET n == NumChunks(size, fileSize)
                a == reportProgress(Agg0, Snap(0, fileSize, Uploading),
                                    TRUE)
            IN  EnterLoop(0, [k \in 0..(n - 1) |-> 0],
                          [k \in 0..(n - 1) |-> "unsent"], listeners, a,
                          sendThrows)
    /\ UNCHANGED <<inputVars, observerVars, aborted, abortController,
                   hash, response, chunkFailStatus, finishStatus, hookCalls,
                   hookState, pendingError, historyVars>>

ComputeHashRejects_Swallowed ==
    /\ pc = "hashing"
    /\ sha256' = <<>>
    /\ upload_id' = sha256'
    /\ LET n == NumChunks(size, fileSize)
           a == reportProgress(Agg0, Snap(0, fileSize, Error), TRUE)
       IN  EnterLoop(0, [k \in 0..(n - 1) |-> 0],
                     [k \in 0..(n - 1) |-> "unsent"], listeners, a,
                     FALSE)
    /\ UNCHANGED <<inputVars, observerVars, aborted, abortController,
                   hash, response, chunkFailStatus, finishStatus, hookCalls,
                   hookState, pendingError, historyVars>>

\* Lines 398-400 and 676-682: computeHash rejected.
ComputeHashRejects ==
    /\ pc = "hashing"
    /\ Commit(reportProgress(Agg0, Snap(0, fileSize, Error), TRUE))
    /\ Reject(ErrChecksum)
    /\ UNCHANGED <<inputVars, observerVars, callVars, aborted,
                   abortController, listeners, historyVars>>


\* ---------------------------------------------------------- uploadChunk()

xhrOnProgress_NoMax(ppc, k, loaded) ==
    [ppc EXCEPT ![k] = Min(ChunkLength(k, size, fileSize), loaded)]

xhrOnProgress_NoClamp(ppc, k, loaded) == [ppc EXCEPT ![k] = Max(@, loaded)]

\* Lines 453-461: the entry of chunk k after a transport progress event.
xhrOnProgress(ppc, k, loaded) ==
    [ppc EXCEPT ![k] = Max(@, Min(ChunkLength(k, size, fileSize), loaded))]

\* Lines 451-474: xhr.upload.onprogress.
XhrProgress(loaded) ==
    /\ pc = "sending"
    /\ LET ppc == xhrOnProgress(progressPerChunk, i, loaded)
       IN  /\ progressPerChunk' = ppc
           /\ Commit(reportProgress(Agg0,
                  Snap(Min(fileSize, Sum(ppc)), fileSize, Uploading), FALSE))
    /\ UNCHANGED <<inputVars, observerVars, pc, aborted, abortController,
                   listeners, sha256, upload_id, i, requests, xhrState,
                   finishCalls, finishUrl, fetchCall, hash, response,
                   chunkFailStatus, finishStatus, hookCalls,
                   hookState, pendingError, outcome, historyVars>>

ChunkFails_Continue(e, mark) ==
    LET s == Snap(Sum(progressPerChunk), fileSize, Error)
    IN  EnterLoop(i + 1, progressPerChunk,
                  [xhrState EXCEPT ![i] = mark], listeners \ {i},
                  reportProgress(reportProgress(Agg0, s, TRUE), s, TRUE),
                  FALSE)

ChunkFails_Retry(e, mark) ==
    LET s == Snap(Sum(progressPerChunk), fileSize, Error)
    IN  EnterLoop(i, progressPerChunk,
                  [xhrState EXCEPT ![i] = mark], listeners \ {i},
                  reportProgress(reportProgress(Agg0, s, TRUE), s, TRUE),
                  FALSE)

ChunkFails_KeepsListener(e, mark) ==
    /\ LET s == Snap(Sum(progressPerChunk), fileSize, Error)
       IN  Commit(reportProgress(reportProgress(Agg0, s, TRUE), s, TRUE))
    /\ Reject(e)
    /\ listeners' = listeners
    /\ xhrState' = [xhrState EXCEPT ![i] = mark]
    /\ UNCHANGED <<i, progressPerChunk, requests, finishCalls, finishUrl,
                   fetchCall>>

\* Lines 500-517, 520-535 with the catch of lines 739-751: the chunk
\* promise rejects and upload() reports and rethrows.
ChunkFails(e, mark) ==
    /\ LET s == Snap(Sum(progressPerChunk), fileSize, Error)
       IN  Commit(reportProgress(reportProgress(Agg0, s, TRUE), s, TRUE))
    /\ Reject(e)
    /\ listeners' = listeners \ {i}
    /\ xhrState' = [xhrState EXCEPT ![i] = mark]
    /\ UNCHANGED <<i, progressPerChunk, requests, finishCalls, finishUrl,
                   fetchCall>>

\* Lines 476-518: xhr.onload, and on a 2xx status the next iteration.
XhrLoad(status, sendThrows) ==
    /\ pc = "sending"
    /\ UNCHANGED <<sha256, upload_id>>
    /\ chunkFailStatus' =
           IF status >= 200 /\ status < 300 THEN chunkFailStatus ELSE status
    /\ IF status >= 200 /\ status < 300
       THEN LET ppc == [progressPerChunk EXCEPT
                            ![i] = ChunkLength(i, size, fileSize)]
                a == reportProgress(Agg0,
                        Snap(Min(fileSize, Sum(ppc)), fileSize, Uploading),
                        FALSE)
                xs == [xhrState EXCEPT ![i] = "loaded"]
            IN  EnterLoop(i + 1, ppc, xs, listeners \ {i}, a, sendThrows)
       ELSE ChunkFails(ErrChunkStatus, "status")
    /\ UNCHANGED <<inputVars, observerVars, aborted, abortController,
                   hash, response, finishStatus, hookCalls, hookState,
                   pendingError, historyVars>>

\* Lines 520-535: xhr.onerror.
XhrError ==
    /\ pc = "sending"
    /\ UNCHANGED <<sha256, upload_id>>
    /\ ChunkFails(ErrNetwork, "error")
    /\ UNCHANGED <<inputVars, observerVars, aborted, abortController,
                   hash, response, chunkFailStatus, finishStatus, hookCalls,
                   hookState, pendingError, historyVars>>

ChunkCatch_Hangs ==
    /\ pc = "chunkRejected"
    /\ UNCHANGED vars

\* Lines 739-751: the continuation of upload() after the chunk promise was
\* rejected by xhr.onabort.
ChunkCatch ==
    /\ pc = "chunkRejected"
    /\ Commit(reportProgress(Agg0,
           Snap(Sum(progressPerChunk), fileSize, Error), TRUE))
    /\ Reject(pendingError)
    /\ UNCHANGED <<inputVars, observerVars, callVars, aborted,
                   abortController, listeners, historyVars>>


\* ------------------------------------------------------------- abort()

\* Lines 363-378.  abortController.abort() fires the signal's listeners
\* only on the transition to aborted: the onAbort listener of the chunk in
\* flight calls xhr.abort(), whose onabort handler (lines 537-552) runs
\* synchronously; a pending finish fetch (or the read of its body) is
\* rejected with an AbortError.  The continuation of upload() runs later.
\* The chunk listens to the signal upload() took at line 650 and the finish
\* fetch to the signal of this.abortController at line 604: abort() reaches
\* them only while this.abortController is still that controller.
SignalFires_Never == FALSE

\* Lines 365-367: abortController.abort() dispatches the abort event when
\* a controller exists and its signal is not aborted yet.
SignalFires == abortController = "fresh"

Abort_NoGuard ==
    /\ aborted' = TRUE
    /\ IF abortController = "none"
       THEN /\ escaped' = TRUE
            /\ UNCHANGED <<abortController, lastProgress,
                           lastProgressReportTime, lastReportedUploaded,
                           recorded, delivered, pc, pendingError, listeners,
                           xhrState, abortedInCall, atAbort>>
       ELSE /\ abortController' = "aborted"
            /\ LET fires == SignalFires
                   xhrHit == fires /\ myCall = callNo /\ pc = "sending"
                             /\ i \in listeners
                   fetchHit == fires /\ fetchCall = callNo
                               /\ pc \in {"finishFetch", "finishJson"}
                   a1 == IF xhrHit
                         THEN reportProgress(Agg0,
                                  Snap(Sum(progressPerChunk), fileSize,
                                       Error), TRUE)
                         ELSE Agg0
               IN  /\ Commit(reportProgress(a1,
                          Snap(a1.last.uploaded, a1.last.total, Error),
                          TRUE))
                   /\ pc' = IF xhrHit THEN "chunkRejected"
                            ELSE IF fetchHit THEN "finishRejected"
                            ELSE pc
                   /\ pendingError' = IF xhrHit THEN ErrAborted
                                      ELSE IF fetchHit THEN ErrFetchAbort
                                      ELSE pendingError
                   /\ listeners' =
                          IF xhrHit THEN listeners \ {i} ELSE listeners
                   /\ xhrState' = IF xhrHit
                                  THEN [xhrState EXCEPT ![i] = "aborted"]
                                  ELSE xhrState
            /\ abortedInCall' =
                   IF pc \in {"idle", "resolved", "rejected"}
                   THEN abortedInCall
                   ELSE abortedInCall \cup {pc}
            /\ atAbort' =
                   IF pc \in {"idle", "resolved", "rejected"}
                          \/ atAbort # NoSnap
                   THEN atAbort
                   ELSE lastProgress
    /\ UNCHANGED <<inputVars, observerVars, sha256, upload_id, i,
                   progressPerChunk, requests, finishCalls, finishUrl,
                   fetchCall, hash,
                   response, chunkFailStatus, finishStatus, hookCalls,
                   hookState, outcome>>

Abort ==
    /\ aborted' = TRUE
    /\ abortController' =
           IF abortController = "none" THEN "none" ELSE "aborted"
    /\ LET fires == SignalFires
           xhrHit == fires /\ myCall = callNo /\ pc = "sending"
                             /\ i \in listeners
           fetchHit == fires /\ fetchCall = callNo
                               /\ pc \in {"finishFetch", "finishJson"}
           a1 == IF xhrHit
                 THEN reportProgress(Agg0,
                          Snap(Sum(progressPerChunk), fileSize, Error), TRUE)
                 ELSE Agg0
       IN  /\ Commit(reportProgress(a1,
                  Snap(a1.last.uploaded, a1.last.total, Error), TRUE))
           /\ pc' = IF xhrHit THEN "chunkRejected"
                    ELSE IF fetchHit THEN "finishRejected"
                    ELSE pc
           /\ pendingError' = IF xhrHit THEN ErrAborted
                              ELSE IF fetchHit THEN ErrFetchAbort
                              ELSE pendingError
           /\ listeners' = IF xhrHit THEN listeners \ {i} ELSE listeners
           /\ xhrState' = IF xhrHit
                          THEN [xhrState EXCEPT ![i] = "aborted"]
                          ELSE xhrState
    /\ abortedInCall' =
           IF pc \in {"idle", "resolved", "rejected"}
           THEN abortedInCall
           ELSE abortedInCall \cup {pc}
    /\ atAbort' =
           IF pc \in {"idle", "resolved", "rejected"} \/ atAbort # NoSnap
           THEN atAbort
           ELSE lastProgress
    /\ UNCHANGED <<inputVars, observerVars, sha256, upload_id, i,
                   progressPerChunk, requests, finishCalls, finishUrl,
                   fetchCall, hash,
                   response, chunkFailStatus, finishStatus, hookCalls,
                   hookState, outcome>>

\* -------------------------------------------------------- finishAndVerify()

\* !data.hash: the field is missing or the empty string
NoHash(data) == ~data.hasHash \/ data.hash = <<>>

NoLength_Ignored(data) == FALSE

\* !data.length: the field is missing or 0
NoLength(data) == ~data.hasLength \/ data.length = 0

finishAndVerify_NoLengthCheck(data, sha, total, alg) ==
    IF NoHash(data) \/ NoLength(data)
    THEN [ok |-> FALSE, error |-> ErrNoHash, hash |-> <<>>]
    ELSE LET serverHash == formatHashFromApi(data.hash, alg)
         IN  IF serverHash # sha
             THEN [ok |-> FALSE, error |-> ErrMismatch, hash |-> <<>>]
             ELSE [ok |-> TRUE, error |-> NoError, hash |-> serverHash]

finishAndVerify_ReturnsRaw(data, sha, total, alg) ==
    IF NoHash(data) \/ NoLength(data)
    THEN [ok |-> FALSE, error |-> ErrNoHash, hash |-> <<>>]
    ELSE LET serverHash == formatHashFromApi(data.hash, alg)
         IN  IF data.length # total
             THEN [ok |-> FALSE, error |-> ErrLength, hash |-> <<>>]
             ELSE IF serverHash # sha
             THEN [ok |-> FALSE, error |-> ErrMismatch, hash |-> <<>>]
             ELSE [ok |-> TRUE, error |-> NoError, hash |-> data.hash]

\* Lines 617-637: the checks on the parsed finish response.
finishAndVerify(data, sha, total, alg) ==
    IF NoHash(data) \/ NoLength(data)
    THEN [ok |-> FALSE, error |-> ErrNoHash, hash |-> <<>>]
    ELSE LET serverHash == formatHashFromApi(data.hash, alg)
         IN  IF data.length # total
             THEN [ok |-> FALSE, error |-> ErrLength, hash |-> <<>>]
             ELSE IF serverHash # sha
             THEN [ok |-> FALSE, error |-> ErrMismatch, hash |-> <<>>]
             ELSE [ok |-> TRUE, error |-> NoError, hash |-> serverHash]

FinishFails_NoReport(a, e) ==
    /\ Commit(a)
    /\ Reject(Wrap(e))

\* Lines 800-806: the catch around the finish phase.
FinishFails(a, e) ==
    /\ Commit(reportProgress(a, Snap(fileSize, fileSize, Error), TRUE))
    /\ Reject(Wrap(e))

FinishFetchResolves_Any2xx(status) ==
    /\ pc = "finishFetch"
    /\ IF status < 200 \/ status >= 300
       THEN FinishFails(reportProgress(Agg0,
                Snap(fileSize, fileSize, Error), TRUE), ErrFinishStatus)
       ELSE /\ pc' = "finishJson"
            /\ Commit(Agg0)
            /\ UNCHANGED outcome
    /\ finishStatus' = status
    /\ UNCHANGED <<inputVars, observerVars, sha256, upload_id, i,
                   progressPerChunk, requests, xhrState, finishCalls,
                   finishUrl, fetchCall, hash, response, hookCalls, hookState,
                   pendingError, chunkFailStatus, aborted, abortController,
                   listeners, historyVars>>

\* Lines 601-615: the finish fetch resolved with a response.
FinishFetchResolves(status) ==
    /\ pc = "finishFetch"
    /\ IF status # 200
       THEN FinishFails(reportProgress(Agg0,
                Snap(fileSize, fileSize, Error), TRUE), ErrFinishStatus)
       ELSE /\ pc' = "finishJson"
            /\ Commit(Agg0)
            /\ UNCHANGED outcome
    /\ finishStatus' = status
    /\ UNCHANGED <<inputVars, observerVars, sha256, upload_id, i,
                   progressPerChunk, requests, xhrState, finishCalls,
                   finishUrl, fetchCall, hash, response, hookCalls, hookState,
                   pendingError, chunkFailStatus, aborted, abortController,
                   listeners, historyVars>>

\* Line 601: the finish fetch rejected (network failure).
FinishFetchRejects ==
    /\ pc = "finishFetch"
    /\ FinishFails(Agg0, ErrFetchNetwork)
    /\ UNCHANGED <<inputVars, observerVars, callVars, aborted,
                   abortController, listeners, historyVars>>

\* The hashes and lengths a finish response may carry.
ServerHashes ==
    LET other == Digest(OtherContent(fileContent))
        prefix == DEFAULT_HASH_ALG \o <<"=">>
    IN  {<<>>, sha256, prefix \o sha256, other, prefix \o other}

ServerLengths == 0..(fileSize + 1)

\* The parsed bodies of a finish response: each field present or missing.
ServerData ==
    {[hasHash |-> TRUE, hash |-> h, hasLength |-> TRUE, length |-> l,
      parsed |-> TRUE] : h \in ServerHashes, l \in ServerLengths}
    \cup {[hasHash |-> FALSE, hash |-> <<>>, hasLength |-> TRUE,
           length |-> fileSize, parsed |-> TRUE],
          [hasHash |-> TRUE, hash |-> sha256, hasLength |-> FALSE,
           length |-> 0, parsed |-> TRUE]}

\* Lines 617-637 and 785-799: response.json() resolved; verification, then
\* the finalize hook is called or Done is reported.
FinishJson(data) ==
    /\ pc = "finishJson"
    /\ response' = data
    /\ LET v == finishAndVerify(data, sha256, fileSize, DEFAULT_HASH_ALG)
       IN  IF ~v.ok
           THEN FinishFails(Agg0, v.error)
                /\ UNCHANGED <<hash, hookCalls, hookState>>
           ELSE /\ hash' = v.hash
                /\ IF hasFinalize
                   THEN /\ hookCalls' = Append(hookCalls, upload_id)
                        /\ hookState' = "pending"
                        /\ pc' = "hook"
                        /\ Commit(Agg0)
                        /\ UNCHANGED outcome
                   ELSE /\ Commit(reportProgress(Agg0,
                               Snap(fileSize, fileSize, Done), TRUE))
                        /\ Resolve(v.hash)
                        /\ UNCHANGED <<hookCalls, hookState>>
    /\ UNCHANGED <<inputVars, observerVars, aborted, abortController,
                   listeners, sha256, upload_id, i, progressPerChunk,
                   requests, xhrState, finishCalls, finishUrl,
                   fetchCall, pendingError,
                   chunkFailStatus, finishStatus, historyVars>>

\* Line 617: response.json() rejected (the body is not JSON).
FinishJsonRejects ==
    /\ pc = "finishJson"
    /\ FinishFails(Agg0, ErrJson)
    /\ UNCHANGED <<inputVars, observerVars, callVars, aborted,
                   abortController, listeners, historyVars>>

\* Lines 800-806: the continuation of upload() after abort() rejected the
\* finish fetch or the read of its body.
FinishCatch ==
    /\ pc = "finishRejected"
    /\ FinishFails(Agg0, pendingError)
    /\ UNCHANGED <<inputVars, observerVars, callVars, aborted,
                   abortController, listeners, historyVars>>

\* Lines 788-799: config.onFinalize(upload_id) resolved.
HookResolves ==
    /\ pc = "hook"
    /\ hookState' = "resolved"
    /\ Commit(reportProgress(Agg0, Snap(fileSize, fileSize, Done), TRUE))
    /\ Resolve(hash)
    /\ UNCHANGED <<inputVars, observerVars, sha256, upload_id, i,
                   progressPerChunk, requests, xhrState, finishCalls,
                   finishUrl, fetchCall, hash, response, chunkFailStatus,
                   finishStatus, hookCalls, pendingError,
                   aborted, abortController, listeners, historyVars>>

HookRejects_Ignored ==
    /\ pc = "hook"
    /\ hookState' = "rejected"
    /\ Commit(reportProgress(Agg0, Snap(fileSize, fileSize, Done), TRUE))
    /\ Resolve(hash)
    /\ UNCHANGED <<inputVars, observerVars, sha256, upload_id, i,
                   progressPerChunk, requests, xhrState, finishCalls,
                   finishUrl, fetchCall, hash, response, chunkFailStatus,
                   finishStatus, hookCalls, pendingError,
                   aborted, abortController, listeners, historyVars>>

\* Lines 788-790 and 800-806: config.onFinalize(upload_id) rejected.
HookRejects ==
    /\ pc = "hook"
    /\ hookState' = "rejected"
    /\ FinishFails(Agg0, ErrHook)
    /\ UNCHANGED <<inputVars, observerVars, sha256, upload_id, i,
                   progressPerChunk, requests, xhrState, finishCalls,
                   finishUrl, fetchCall, hash, response, chunkFailStatus,
                   finishStatus, hookCalls, pendingError,
                   aborted, abortController, listeners, historyVars>>

\* ------------------------------------------------------------ observers

\* Lines 300-315: onprogress(cb) with a callback whose handle is not held;
\* the caller keeps the handle it returns.
OnProgress(cb) ==
    /\ cb \notin handles
    /\ handles' = handles \cup {cb}
    /\ progressCallback' = cb
    /\ delivered' = <<lastProgress>>
    /\ recorded' = <<>>
    /\ UNCHANGED <<inputVars, callVars, pc, aborted, abortController,
                   listeners, lastProgress, lastProgressReportTime,
                   lastReportedUploaded, now, outcome, historyVars,
                   escaped>>

Unsubscribe_NoIdentityCheck(cb) ==
    /\ cb \in handles
    /\ handles' = handles \ {cb}
    /\ progressCallback' = NoCb
    /\ delivered' = <<>>
    /\ recorded' = <<>>
    /\ UNCHANGED <<inputVars, callVars, pc, aborted, abortController,
                   listeners, lastProgress, lastProgressReportTime,
                   lastReportedUploaded, now, outcome, historyVars,
                   escaped>>

\* Lines 310-314: the unsubscribe handle onprogress(cb) returned is called
\* (once): it clears the observer only if cb is still the registered one.
Unsubscribe(cb) ==
    /\ cb \in handles
    /\ handles' = handles \ {cb}
    /\ progressCallback' = IF progressCallback = cb THEN NoCb
                           ELSE progressCallback
    /\ delivered' = <<>>
    /\ recorded' = <<>>
    /\ UNCHANGED <<inputVars, callVars, pc, aborted, abortController,
                   listeners, lastProgress, lastProgressReportTime,
                   lastReportedUploaded, now, outcome, historyVars,
                   escaped>>

\* Date.now() advances.
Tick ==
    /\ now < MaxTime
    /\ now' = now + 1
    /\ delivered' = <<>>
    /\ recorded' = <<>>
    /\ UNCHANGED <<inputVars, callVars, pc, aborted, abortController,
                   listeners, progressCallback, handles, lastProgress,
                   lastProgressReportTime, lastReportedUploaded, outcome,
                   historyVars, escaped>>

\* ------------------------------------------------------------ specification
Statuses == {200, 201, 500}

Next ==
    \/ Upload
    \/ \E t \in BOOLEAN : ComputeHashResolves(t)
    \/ ComputeHashRejects
    \/ \E l \in 0..(MaxFileSize + 1) : XhrProgress(l)
    \/ \E st \in Statuses, t \in BOOLEAN : XhrLoad(st, t)
    \/ XhrError
    \/ ChunkCatch
    \/ Abort
    \/ \E st \in Statuses : FinishFetchResolves(st)
    \/ FinishFetchRejects
    \/ \E data \in ServerData : FinishJson(data)
    \/ FinishJsonRejects
    \/ FinishCatch
    \/ HookResolves
    \/ HookRejects
    \/ \E cb \in Observers : OnProgress(cb)
    \/ \E cb \in Observers : Unsubscribe(cb)
    \/ Tick

Spec == Init /\ [][Next]_vars

\* The clock of the observer specification runs past MaxTime, so that a
\* full throttle interval can elapse after a delivered notification.
LateTick ==
    /\ now >= MaxTime
    /\ now < MaxTime + 1
    /\ now' = now + 1
    /\ delivered' = <<>>
    /\ recorded' = <<>>
    /\ UNCHANGED <<inputVars, callVars, pc, aborted, abortController,
                   listeners, progressCallback, handles, lastProgress,
                   lastProgressReportTime, lastReportedUploaded, outcome,
                   historyVars, escaped>>

\* One upload with a finalize hook, observed by callbacks that may throw.
InitObs ==
    /\ Init
    /\ fileContent = "A"
    /\ hasFinalize

NextObs ==
    \/ Next
    \/ LateTick
    \/ \E cb \in RaisingObservers : OnProgress(cb)
    \/ \E cb \in RaisingObservers : Unsubscribe(cb)

SpecObs == InitObs /\ [][NextObs]_vars

\* Lines 647-670 with overwrite = true: the first upload() call of the
\* client, allowed to replace existing content.
UploadOverwrite ==
    /\ pc = "idle"
    /\ overwrite' = TRUE
    /\ aborted' = FALSE
    /\ abortController' = "fresh"
    /\ listeners' = {}
    /\ Commit(reportProgress(Agg0, Snap(0, fileSize, Initializing), TRUE))
    /\ pc' = "hashing"
    /\ abortedInCall' = {}
    /\ atAbort' = NoSnap
    /\ callNo' = callNo + 1
    /\ myCall' = callNo + 1
    /\ UNCHANGED <<fileSize, fileContent, size, hasFinalize, prevCall,
                   uploaded, observerVars, callVars, outcome>>

\* Lines 647-670: a further upload() call on the client after the previous
\* one settled, with a file of the same size, any content, chunk size and
\* overwrite policy.  The locals of upload() start afresh.
UploadAgain(c, sz, ow) ==
    /\ pc \in {"resolved", "rejected"}
    /\ callNo < MaxCalls
    /\ callNo' = callNo + 1
    /\ myCall' = callNo + 1
    /\ fetchCall' = 0
    /\ prevCall' = [content |-> fileContent, id |-> upload_id]
    /\ fileContent' = c
    /\ size' = sz
    /\ overwrite' = ow
    /\ aborted' = FALSE
    /\ abortController' = "fresh"
    /\ listeners' = {}
    /\ Commit(reportProgress(Agg0, Snap(0, fileSize, Initializing), TRUE))
    /\ pc' = "hashing"
    /\ sha256' = <<>>
    /\ upload_id' = <<>>
    /\ i' = 0
    /\ progressPerChunk' = <<>>
    /\ requests' = <<>>
    /\ xhrState' = <<>>
    /\ finishCalls' = 0
    /\ finishUrl' = NoUrl
    /\ hash' = <<>>
    /\ response' = NoData
    /\ hookCalls' = <<>>
    /\ hookState' = "none"
    /\ pendingError' = NoError
    /\ chunkFailStatus' = 0
    /\ finishStatus' = 0
    /\ outcome' = NoOutcome
    /\ abortedInCall' = {}
    /\ atAbort' = NoSnap
    /\ UNCHANGED <<fileSize, hasFinalize, uploaded, observerVars>>

\* The status with which a server refuses to create content that exists.
ConflictStatus == 409

\* Up to MaxCalls upload() calls in a row on one client that has a
\* finalize hook and no progress observer.
InitCalls ==
    /\ Init
    /\ hasFinalize

NextCalls ==
    \/ Upload
    \/ UploadOverwrite
    \/ \E c \in Contents, sz \in {-1} \cup (1..MaxChunkSize),
          ow \in BOOLEAN : UploadAgain(c, sz, ow)
    \/ \E t \in BOOLEAN : ComputeHashResolves(t)
    \/ ComputeHashRejects
    \/ \E st \in Statuses \cup {ConflictStatus}, t \in BOOLEAN :
           XhrLoad(st, t)
    \/ XhrError
    \/ ChunkCatch
    \/ Abort
    \/ \E st \in Statuses : FinishFetchResolves(st)
    \/ FinishFetchRejects
    \/ \E data \in ServerData : FinishJson(data)
    \/ FinishJsonRejects
    \/ FinishCatch
    \/ HookResolves
    \/ HookRejects
    \/ Tick

SpecCalls == InitCalls /\ [][NextCalls]_vars

\* Lines 647-670: another upload() call is made on the client while the
\* call that is followed is still pending.  It clears the abort flag,
\* replaces this.abortController and reports Initializing, then waits for
\* its own checksum; its later steps are not followed.  The signal and the
\* listeners of the pending call stay with the replaced controller.
UploadConcurrent ==
    /\ pc \notin {"idle", "resolved", "rejected"}
    /\ callNo < MaxCalls
    /\ callNo' = callNo + 1
    /\ aborted' = FALSE
    /\ abortController' = "fresh"
    /\ Commit(reportProgress(Agg0, Snap(0, fileSize, Initializing), TRUE))
    /\ UNCHANGED <<fileSize, fileContent, size, hasFinalize, overwrite,
                   prevCall, myCall, uploaded, observerVars, callVars, pc,
                   listeners, outcome, historyVars>>

\* upload() calls on one client that may overlap: a further call is made
\* after the previous one settled or while it is pending.
InitOverlap ==
    /\ Init
    /\ fileContent = "A"
    /\ hasFinalize

NextOverlap ==
    \/ Upload
    \/ UploadAgain(fileContent, size, overwrite)
    \/ UploadConcurrent
    \/ \E t \in BOOLEAN : ComputeHashResolves(t)
    \/ ComputeHashRejects
    \/ \E st \in Statuses, t \in BOOLEAN : XhrLoad(st, t)
    \/ XhrError
    \/ ChunkCatch
    \/ Abort
    \/ \E st \in Statuses : FinishFetchResolves(st)
    \/ FinishFetchRejects
    \/ \E data \in ServerData : FinishJson(data)
    \/ FinishJsonRejects
    \/ FinishCatch
    \/ HookResolves
    \/ HookRejects

SpecOverlap == InitOverlap /\ [][NextOverlap]_vars

\* The degenerate arguments of upload(): an empty file with any chunk
\* size, or a file with a chunk size of 0 or below -1.
DegenerateSizes == ((-MaxChunkSize)..0) \ {-1}

\* A constructed client about to receive upload() with such arguments.
InitDegenerate ==
    /\ pc = "idle"
    /\ fileSize \in 0..MaxFileSize
    /\ fileContent \in Contents
    /\ size \in (-MaxChunkSize)..MaxChunkSize
    /\ fileSize = 0 \/ size \in DegenerateSizes
    /\ hasFinalize \in BOOLEAN
    /\ aborted = FALSE
    /\ abortController = "none"
    /\ listeners = {}
    /\ progressCallback = NoCb
    /\ lastProgress = Snap(0, 0, Initializing)
    /\ lastProgressReportTime = 0
    /\ lastReportedUploaded = 0
    /\ now = progressIntervalMs + 1
    /\ sha256 = <<>>
    /\ upload_id = <<>>
    /\ i = 0
    /\ progressPerChunk = <<>>
    /\ requests = <<>>
    /\ xhrState = <<>>
    /\ finishCalls = 0
    /\ finishUrl = NoUrl
    /\ hash = <<>>
    /\ response = NoData
    /\ hookCalls = <<>>
    /\ hookState = "none"
    /\ pendingError = NoError
    /\ outcome = NoOutcome
    /\ abortedInCall = {}
    /\ atAbort = NoSnap
    /\ recorded = <<>>
    /\ delivered = <<>>
    /\ escaped = FALSE
    /\ overwrite = FALSE
    /\ callNo = 0
    /\ prevCall = NoCall
    /\ chunkFailStatus = 0
    /\ finishStatus = 0
    /\ handles = {}
    /\ myCall = 0
    /\ fetchCall = 0
    /\ uploaded = 0

\* The steps such a call can take: it sends no chunk request.
NextDegenerate ==
    \/ Upload
    \/ \E t \in BOOLEAN : ComputeHashResolves(t)
    \/ ComputeHashRejects
    \/ Abort
    \/ \E st \in Statuses : FinishFetchResolves(st)
    \/ FinishFetchRejects
    \/ \E data \in ServerData : FinishJson(data)
    \/ FinishJsonRejects
    \/ FinishCatch
    \/ HookResolves
    \/ HookRejects

SpecDegenerate == InitDegenerate /\ [][NextDegenerate]_vars

\* ------------------------------------------ the legacy ChunkedUploaderClient
\* ChunkedUploaderClient (src/unnamed/part_004, exported by src/src/index.ts)
\* has the fields aborted, abortController, progressCallback and
\* lastProgress of UploaderClient; its upload() starts the requests of all
\* chunks in one loop and keeps the byte count in the local `uploaded`.
\* xhrState holds how the fetch of each chunk ended: "pending", "ok" or
\* "failed".

\* Lines 60-67: reportProgress of the legacy client, which has no throttle.
legacyReport(a, st) ==
    IF progressCallback = NoCb
    THEN [a EXCEPT !.last = st, !.rec = Append(@, st)]
    ELSE [a EXCEPT !.last = st, !.rec = Append(@, st),
                   !.del = Append(@, st)]

\* Line 145: Math.ceil(file.size / chunkSize)
LegacyChunks(cs, F) == Ceil(F, cs)

\* Lines 151-154: chunkLength of chunk k
LegacyChunkLength(k, cs, F) == Min(F, k * cs + cs) - k * cs

ErrInit == Err("Failed to initialize upload")
ErrParseId == Err("Failed to parse upload_id")
ErrAbortedDuringChecksum == Err("Upload aborted during checksum calculation")
ErrRead == Err("Failed to read file")

\* The variables no step of the legacy client changes.
legacyIdle == <<fileSize, fileContent, size, hasFinalize, overwrite, callNo,
                prevCall, myCall, listeners, progressCallback, now, handles,
                sha256, upload_id, i, progressPerChunk, finishCalls,
                finishUrl, fetchCall, hash, response, hookCalls, hookState,
                pendingError, chunkFailStatus, finishStatus, abortedInCall,
                atAbort>>

\* A constructed legacy client (lines 34-47) and the arguments of upload().
InitLegacy ==
    /\ pc = "idle"
    /\ fileSize \in 1..MaxFileSize
    /\ fileContent \in Contents
    /\ size \in 1..MaxChunkSize
    /\ hasFinalize = FALSE
    /\ aborted = FALSE
    /\ abortController = "none"
    /\ listeners = {}
    /\ progressCallback = NoCb
    /\ lastProgress = Snap(0, 0, Initializing)
    /\ lastProgressReportTime = 0
    /\ lastReportedUploaded = 0
    /\ now = progressIntervalMs + 1
    /\ sha256 = <<>>
    /\ upload_id = <<>>
    /\ i = 0
    /\ progressPerChunk = <<>>
    /\ requests = <<>>
    /\ xhrState = <<>>
    /\ finishCalls = 0
    /\ finishUrl = NoUrl
    /\ hash = <<>>
    /\ response = NoData
    /\ hookCalls = <<>>
    /\ hookState = "none"
    /\ pendingError = NoError
    /\ outcome = NoOutcome
    /\ abortedInCall = {}
    /\ atAbort = NoSnap
    /\ recorded = <<>>
    /\ delivered = <<>>
    /\ escaped = FALSE
    /\ overwrite = FALSE
    /\ callNo = 0
    /\ prevCall = NoCall
    /\ chunkFailStatus = 0
    /\ finishStatus = 0
    /\ handles = {}
    /\ myCall = 0
    /\ fetchCall = 0
    /\ uploaded = 0

\* A rejection of the legacy upload() after a forced report of Error.
LegacyFail(a, e) ==
    /\ Commit(legacyReport(a, Snap(uploaded, fileSize, Error)))
    /\ Reject(e)

\* Lines 82-108: upload() up to the init request.
LegacyUpload ==
    /\ pc = "idle"
    /\ aborted' = FALSE
    /\ abortController' = "fresh"
    /\ uploaded' = 0
    /\ Commit(legacyReport(Agg0, Snap(0, fileSize, Initializing)))
    /\ pc' = "init"
    /\ UNCHANGED <<legacyIdle, requests, xhrState, outcome>>

\* Lines 114-117: the init request was answered.  An aborted signal rejects
\* the fetch, so it is answered only while abort() has not run.
LegacyInitResolves(status) ==
    /\ pc = "init"
    /\ ~aborted
    /\ IF status # 201
       THEN LegacyFail(Agg0, ErrInit)
       ELSE /\ pc' = "initJson"
            /\ Commit(Agg0)
            /\ UNCHANGED outcome
    /\ UNCHANGED <<legacyIdle, aborted, abortController, uploaded, requests,
                   xhrState>>

\* Lines 109-112: the init request failed or was aborted.
LegacyInitRejects ==
    /\ pc = "init"
    /\ LegacyFail(Agg0, Wrap(ErrInit))
    /\ UNCHANGED <<legacyIdle, aborted, abortController, uploaded, requests,
                   xhrState>>

\* Lines 121-203: the body of the init response was parsed; Uploading is
\* reported, the requests of all chunks are started in one loop (the flag
\* tested at line 149 is clear, the body having been read), and the file
\* is handed to the reader (205-250).
LegacyInitJson ==
    /\ pc = "initJson"
    /\ ~aborted
    /\ LET n == LegacyChunks(size, fileSize)
       IN  /\ xhrState' = [k \in 0..(n - 1) |-> "pending"]
           /\ requests' = [j \in 1..n |->
                              [index |-> j - 1,
                               start |-> (j - 1) * size,
                               end |-> Min(fileSize, j * size)]]
    /\ Commit(legacyReport(Agg0, Snap(0, fileSize, Uploading)))
    /\ pc' = "hashing"
    /\ UNCHANGED <<legacyIdle, aborted, abortController, uploaded, outcome>>

\* Lines 123-126: reading the body of the init response failed.
LegacyInitJsonRejects ==
    /\ pc = "initJson"
    /\ LegacyFail(Agg0, ErrParseId)
    /\ UNCHANGED <<legacyIdle, aborted, abortController, uploaded, requests,
                   xhrState>>

\* Lines 169-184: the request of chunk k was answered with an ok status,
\* at whatever point upload() is.
LegacyChunkOk(k) ==
    /\ k \in DOMAIN xhrState
    /\ xhrState[k] = "pending"
    /\ ~aborted
    /\ xhrState' = [xhrState EXCEPT ![k] = "ok"]
    /\ uploaded' = Min(fileSize,
                       uploaded + LegacyChunkLength(k, size, fileSize))
    /\ Commit(legacyReport(Agg0, Snap(uploaded', fileSize, Uploading)))
    /\ UNCHANGED <<legacyIdle, pc, aborted, abortController, requests,
                   outcome>>

\* Lines 170-174 and 185-200: the request of chunk k was answered with a
\* status that is not ok, failed, or was aborted.
LegacyChunkFails(k) ==
    /\ k \in DOMAIN xhrState
    /\ xhrState[k] = "pending"
    /\ xhrState' = [xhrState EXCEPT ![k] = "failed"]
    /\ Commit(legacyReport(Agg0, Snap(uploaded, fileSize, Error)))
    /\ UNCHANGED <<legacyIdle, pc, aborted, abortController, uploaded,
                   requests, outcome>>

\* Lines 69-80: abort().  The requests that listen to the signal are
\* rejected; their handlers run in later steps.
LegacyAbort ==
    /\ aborted' = TRUE
    /\ abortController' =
           IF abortController = "none" THEN "none" ELSE "aborted"
    /\ Commit(legacyReport(Agg0,
           Snap(lastProgress.uploaded, lastProgress.total, Error)))
    /\ UNCHANGED <<legacyIdle, pc, uploaded, requests, xhrState, outcome>>

\* Lines 205-255: the checksum was computed.
LegacyHashResolves ==
    /\ pc = "hashing"
    /\ IF aborted
       THEN LegacyFail(Agg0, ErrAbortedDuringChecksum)
       ELSE /\ pc' = "awaitAll"
            /\ Commit(Agg0)
            /\ UNCHANGED outcome
    /\ UNCHANGED <<legacyIdle, aborted, abortController, uploaded, requests,
                   xhrState>>

\* Lines 219-249: reading or digesting the file failed.
LegacyHashRejects ==
    /\ pc = "hashing"
    /\ LegacyFail(Agg0, ErrRead)
    /\ UNCHANGED <<legacyIdle, aborted, abortController, uploaded, requests,
                   xhrState>>

\* Lines 259-283 and 304-307: Promise.all(promises) settled: rejected as
\* soon as one chunk promise is rejected, resolved when all are resolved.
LegacyAllSettled ==
    /\ pc = "awaitAll"
    /\ LET failed == \E k \in DOMAIN xhrState : xhrState[k] = "failed"
           allOk == \A k \in DOMAIN xhrState : xhrState[k] = "ok"
           s == Snap(uploaded, fileSize, Error)
       IN  /\ failed \/ allOk
           /\ IF failed
              THEN /\ Commit(legacyReport(Agg0, s))
                   /\ Reject(Wrap(ErrChunkStatus))
                   /\ UNCHANGED uploaded
              ELSE IF aborted
              THEN /\ Commit(legacyReport(legacyReport(Agg0, s), s))
                   /\ Reject(Wrap(ErrAbortedDuringChunk))
                   /\ UNCHANGED uploaded
              ELSE /\ uploaded' = fileSize
                   /\ Commit(legacyReport(Agg0,
                          Snap(fileSize, fileSize, Finishing)))
                   /\ pc' = "finishFetch"
                   /\ UNCHANGED outcome
    /\ UNCHANGED <<legacyIdle, aborted, abortController, requests, xhrState>>

\* Lines 285-296: the finish request was answered.
LegacyFinishResolves(status) ==
    /\ pc = "finishFetch"
    /\ ~aborted
    /\ IF status # 201
       THEN LET s == Snap(uploaded, fileSize, Error)
            IN  /\ Commit(legacyReport(legacyReport(Agg0, s), s))
                /\ Reject(Wrap(ErrFinishStatus))
       ELSE /\ pc' = "finishJson"
            /\ Commit(Agg0)
            /\ UNCHANGED outcome
    /\ UNCHANGED <<legacyIdle, aborted, abortController, uploaded, requests,
                   xhrState>>

\* Lines 278 and 304-307: the finish request failed or was aborted.
LegacyFinishRejects ==
    /\ pc = "finishFetch"
    /\ LegacyFail(Agg0, Wrap(ErrFetchNetwork))
    /\ UNCHANGED <<legacyIdle, aborted, abortController, uploaded, requests,
                   xhrState>>

\* Lines 296-309: the body of the finish response was parsed.
LegacyFinishJson ==
    /\ pc = "finishJson"
    /\ ~aborted
    /\ Commit(legacyReport(Agg0, Snap(fileSize, fileSize, Done)))
    /\ Resolve(<<>>)
    /\ UNCHANGED <<legacyIdle, aborted, abortController, uploaded, requests,
                   xhrState>>

\* Lines 296 and 304-307: reading the body of the finish response failed
\* or was aborted.
LegacyFinishJsonRejects ==
    /\ pc = "finishJson"
    /\ LegacyFail(Agg0, Wrap(ErrJson))
    /\ UNCHANGED <<legacyIdle, aborted, abortController, uploaded, requests,
                   xhrState>>

NextLegacy ==
    \/ LegacyUpload
    \/ \E st \in Statuses : LegacyInitResolves(st)
    \/ LegacyInitRejects
    \/ LegacyInitJson
    \/ LegacyInitJsonRejects
    \/ \E k \in 0..(MaxFileSize - 1) : LegacyChunkOk(k)
    \/ \E k \in 0..(MaxFileSize - 1) : LegacyChunkFails(k)
    \/ LegacyAbort
    \/ LegacyHashResolves
    \/ LegacyHashRejects
    \/ LegacyAllSettled
    \/ \E st \in Statuses : LegacyFinishResolves(st)
    \/ LegacyFinishRejects
    \/ LegacyFinishJson
    \/ LegacyFinishJsonRejects

SpecLegacy == InitLegacy /\ [][NextLegacy]_vars

\* Every started file read, chunk request, finish request, body read and
\* finalize hook eventually completes or fails, and the event loop runs the
\* continuation of a rejected await.
Fairness ==
    /\ WF_vars((\E t \in BOOLEAN : ComputeHashResolves(t))
                  \/ ComputeHashRejects)
    /\ WF_vars((\E st \in Statuses, t \in BOOLEAN : XhrLoad(st, t))
                  \/ XhrError)
    /\ WF_vars(ChunkCatch)
    /\ WF_vars((\E st \in Statuses : FinishFetchResolves(st))
                  \/ FinishFetchRejects)
    /\ WF_vars((\E data \in ServerData : FinishJson(data))
                  \/ FinishJsonRejects)
    /\ WF_vars(FinishCatch)
    /\ WF_vars(HookResolves \/ HookRejects)

\* One upload of a file with a finalize hook, under the fairness above.
InitLive ==
    /\ Init
    /\ fileContent = "A"
    /\ hasFinalize

\* The steps of the call and of abort(); progress observers and the clock,
\* which no step of the call waits for, are left out.
NextLive ==
    \/ Upload
    \/ \E t \in BOOLEAN : ComputeHashResolves(t)
    \/ ComputeHashRejects
    \/ \E l \in 0..(MaxFileSize + 1) : XhrProgress(l)
    \/ \E st \in Statuses, t \in BOOLEAN : XhrLoad(st, t)
    \/ XhrError
    \/ ChunkCatch
    \/ Abort
    \/ \E st \in Statuses : FinishFetchResolves(st)
    \/ FinishFetchRejects
    \/ \E data \in ServerData : FinishJson(data)
    \/ FinishJsonRejects
    \/ FinishCatch
    \/ HookResolves
    \/ HookRejects

SpecLive == InitLive /\ [][NextLive]_vars /\ Fairness

\* ------------------------------------------------- the verifier in isolation

\* Characters of hash texts: the algorithm name, the separator, and a
\* character that belongs to neither.
HashChars == {"s", "=", "a"}

\* Checksum texts of at most MaxLen characters.
HashTexts == UNION {[1..n -> HashChars] : n \in 0..MaxLen}

\* Hash texts a server may send: a text, or a text behind "<alg>=".
ServerTexts ==
    HashTexts \cup {DEFAULT_HASH_ALG \o <<"=">> \o t : t \in HashTexts}

\* finishAndVerify about to check a parsed response that carries a hash and
\* the right length against a local checksum, both drawn from the texts.
InitFormat ==
    /\ pc = "verify"
    /\ sha256 \in HashTexts \ {<<>>}
    /\ response \in {[hasHash |-> TRUE, hash |-> h, hasLength |-> TRUE,
                      length |-> 1, parsed |-> TRUE] : h \in ServerTexts}
    /\ fileSize = 1
    /\ fileContent = "A"
    /\ size = -1
    /\ hasFinalize = FALSE
    /\ aborted = FALSE
    /\ abortController = "none"
    /\ listeners = {}
    /\ progressCallback = NoCb
    /\ lastProgress = Snap(0, 0, Initializing)
    /\ lastProgressReportTime = 0
    /\ lastReportedUploaded = 0
    /\ now = progressIntervalMs + 1
    /\ upload_id = sha256
    /\ i = 0
    /\ progressPerChunk = <<>>
    /\ requests = <<>>
    /\ xhrState = <<>>
    /\ finishCalls = 0
    /\ finishUrl = NoUrl
    /\ hash = <<>>
    /\ hookCalls = <<>>
    /\ hookState = "none"
    /\ pendingError = NoError
    /\ outcome = NoOutcome
    /\ abortedInCall = {}
    /\ atAbort = NoSnap
    /\ recorded = <<>>
    /\ delivered = <<>>
    /\ escaped = FALSE
    /\ overwrite = FALSE
    /\ callNo = 0
    /\ prevCall = NoCall
    /\ chunkFailStatus = 0
    /\ finishStatus = 200
    /\ handles = {}
    /\ myCall = 0
    /\ fetchCall = 0
    /\ uploaded = 0

\* Lines 617-637 and part_002: the hash of the response is normalised and
\* the response is verified; `hash` keeps the normalised text and
\* `outcome` the verdict.
Verify ==
    /\ pc = "verify"
    /\ pc' = "verified"
    /\ hash' = formatHashFromApi(response.hash, DEFAULT_HASH_ALG)
    /\ LET v == finishAndVerify(response, sha256, fileSize, DEFAULT_HASH_ALG)
       IN  outcome' = [kind |-> IF v.ok THEN "resolved" ELSE "rejected",
                       error |-> v.error, value |-> v.hash]
    /\ UNCHANGED <<inputVars, observerVars, sha256, upload_id, i,
                   progressPerChunk, requests, xhrState, finishCalls,
                   finishUrl,
                   fetchCall, response, hookCalls, hookState, pendingError,
                   chunkFailStatus, finishStatus, aborted, abortController,
                   listeners, historyVars, lastProgress,
                   lastProgressReportTime, lastReportedUploaded, recorded,
                   delivered, escaped>>

NextFormat == Verify

SpecFormat == InitFormat /\ [][NextFormat]_vars


\* ------------------------------------------------------------------ claims
Settled == pc \in {"resolved", "rejected"}

Last(q) == q[Len(q)]

\* C1: chunk transfers are strictly sequential: at most one chunk request
\* of the call is outstanding, and the request of chunk k+1 is started only
\* after the request of chunk k ended with a success status.
C1_Sequential ==
    /\ Cardinality({k \in DOMAIN xhrState : xhrState[k] = "pending"}) <= 1
    /\ \A k \in DOMAIN xhrState :
           (k > 0 /\ xhrState[k] # "unsent") => xhrState[k - 1] = "loaded"
    /\ \A j \in 1..Len(requests) : requests[j].index = j - 1

C1_Witness ==
    /\ pc = "sending"
    /\ i = 2
    /\ xhrState[2] = "pending"
    /\ xhrState[1] = "loaded"

\* C2: the byte ranges of the chunk requests, in index order, partition
\* [0, fileSize): the first starts at 0, each starts where the previous one
\* ended, each is non-empty, and once the loop has completed the last one
\* ends at fileSize.
C2_Partition ==
    /\ requests # <<>> => requests[1].start = 0
    /\ \A j \in 1..Len(requests) :
           /\ requests[j].start < requests[j].end
           /\ requests[j].end <= fileSize
    /\ \A j \in 1..(Len(requests) - 1) :
           requests[j + 1].start = requests[j].end
    /\ finishCalls > 0 =>
           /\ requests # <<>>
           /\ Last(requests).end = fileSize

C2_Witness ==
    /\ finishCalls > 0
    /\ Len(requests) >= 2
    /\ Last(requests).end - Last(requests).start
           < requests[1].end - requests[1].start

\* C3: no request is issued before the checksum exists, and a call whose
\* checksum computation failed is rejected with the checksum failure, has
\* Error as its latest snapshot and has issued no chunk and no finish
\* request.
C3_ChecksumFirst ==
    /\ (requests # <<>> \/ finishCalls > 0) => sha256 # <<>>
    /\ (sha256 = <<>> /\ pc \notin {"idle", "hashing"}) =>
           /\ pc = "rejected"
           /\ outcome.kind = "rejected"
           /\ outcome.error = ErrChecksum
           /\ lastProgress.state = Error
           /\ requests = <<>>
           /\ finishCalls = 0

C3_Witness ==
    /\ pc = "rejected"
    /\ outcome.error = ErrChecksum
    /\ delivered # <<>>
    /\ Last(delivered).state = Error


\* The snapshots of the current call in recording order across one step:
\* the latest one before the step, then those the step records.
CallChain ==
    IF pc = "idle" THEN recorded' ELSE <<lastProgress>> \o recorded'

C4Allowed(s, t) ==
    \/ s = t
    \/ <<s, t>> \in {<<Initializing, Uploading>>, <<Uploading, Finishing>>,
                     <<Finishing, Done>>}
    \/ s \notin {Done, Error} /\ t = Error

\* C4: while an upload() call is pending, consecutive recorded snapshots
\* move only along Initializing -> Uploading -> Finishing -> Done or from a
\* non-terminal state to Error; nothing other than Done follows Done and
\* nothing other than Error follows Error.
C4_TerminalStates ==
    [][~Settled =>
           \A j \in 1..(Len(CallChain) - 1) :
               C4Allowed(CallChain[j].state, CallChain[j + 1].state)]_vars

\* C5: a call during which abort() ran settles by rejecting and does not
\* end with Done recorded.  (Stated without the classification of the
\* rejection as "aborted": whichever error values count as aborted, the
\* claim requires at least this.)
C5_AbortRejects ==
    (abortedInCall # {} /\ Settled) =>
        /\ outcome.kind = "rejected"
        /\ lastProgress.state # Done

\* C6: after abort() ran while the request of chunk i was in flight, that
\* request is aborted, no later chunk and no finish request is started,
\* upload() rejects with "Upload aborted", and the Error snapshot carries
\* the uploaded count of the latest snapshot recorded before the abort.
C6_AbortInFlight ==
    "sending" \in abortedInCall =>
        /\ pc \in {"chunkRejected", "rejected"}
        /\ xhrState[i] = "aborted"
        /\ Len(requests) = i + 1
        /\ \A k \in DOMAIN xhrState : k > i => xhrState[k] = "unsent"
        /\ finishCalls = 0
        /\ pc = "rejected" =>
               /\ outcome.kind = "rejected"
               /\ outcome.error = ErrAborted
        /\ lastProgress.state = Error
        /\ lastProgress.uploaded = atAbort.uploaded
        /\ lastProgress.total = fileSize

C6_Witness ==
    /\ "sending" \in abortedInCall
    /\ pc = "rejected"
    /\ i = 1
    /\ Cardinality(DOMAIN xhrState) = 3
    /\ lastProgress.uploaded = 2

\* C7: along the snapshots of one call the uploaded field never decreases,
\* and no recorded snapshot has uploaded above total.
C7_Monotone ==
    [][~Settled =>
           /\ \A j \in 1..(Len(CallChain) - 1) :
                  CallChain[j].uploaded <= CallChain[j + 1].uploaded
           /\ \A j \in 1..Len(recorded') :
                  recorded'[j].uploaded <= recorded'[j].total]_vars

C7_Witness ==
    /\ pc = "sending"
    /\ i >= 1
    /\ recorded # <<>>
    /\ Last(recorded).state = Uploading
    /\ Last(recorded).uploaded > 0
    /\ Last(recorded).uploaded < fileSize
    /\ progressPerChunk[i] > 0

\* The finish response carries the local checksum, bare or behind the
\* algorithm prefix, and the file size as its length.
ResponseMatches ==
    /\ response.parsed
    /\ response.hasHash
    /\ response.hash \in {sha256, DEFAULT_HASH_ALG \o <<"=">> \o sha256}
    /\ response.hasLength
    /\ response.length = fileSize

\* C8: upload() resolves, and Done is the latest snapshot, only when the
\* finish response matched; a parsed finish response that does not match
\* leaves the call rejected with Error recorded.
C8_VerifiedDone ==
    /\ (pc = "resolved" \/ lastProgress.state = Done) => ResponseMatches
    /\ (response.parsed /\ ~ResponseMatches) =>
           /\ pc = "rejected"
           /\ outcome.kind = "rejected"
           /\ lastProgress.state = Error

C8_Witness ==
    /\ pc = "resolved"
    /\ lastProgress.state = Done
    /\ response.hash = DEFAULT_HASH_ALG \o <<"=">> \o sha256

\* C9: a finish response whose length differs from the file size while its
\* hash matches is rejected with the length-mismatch error, and one whose
\* (non-empty) hash differs while its length matches is rejected with the
\* checksum-mismatch error.
C9_DistinctMismatch ==
    /\ ( /\ response.parsed
         /\ response.hasHash
         /\ response.hash \in {sha256, DEFAULT_HASH_ALG \o <<"=">> \o sha256}
         /\ response.hasLength
         /\ response.length # fileSize )
       => outcome.error = Wrap(ErrLength)
    /\ ( /\ response.parsed
         /\ response.hasHash
         /\ response.hash # <<>>
         /\ response.hash \notin
                {sha256, DEFAULT_HASH_ALG \o <<"=">> \o sha256}
         /\ response.hasLength
         /\ response.length = fileSize )
       => outcome.error = Wrap(ErrMismatch)

\* C10: the step in which upload() rejects records an Error snapshot, which
\* is then the latest snapshot, and hands it to the registered observer.
C10_ErrorBeforeReject ==
    [][(pc # "rejected" /\ pc' = "rejected") =>
           /\ recorded' # <<>>
           /\ Last(recorded').state = Error
           /\ lastProgress' = Last(recorded')
           /\ progressCallback # NoCb =>
                  /\ delivered' # <<>>
                  /\ Last(delivered') = Last(recorded')]_vars

C10_Witness ==
    /\ pc = "rejected"
    /\ outcome.error = Wrap(ErrHook)
    /\ progressCallback # NoCb
    /\ delivered # <<>>
    /\ Last(delivered).state = Error

\* C11: the step in which upload() resolves records Done with uploaded =
\* total = fileSize as its last snapshot, and the value returned is the
\* locally computed checksum, which is the identifier in the URL of every
\* chunk request and of the finish request of the call.
C11_ResolvesWithChecksum ==
    [][(pc # "resolved" /\ pc' = "resolved") =>
           /\ recorded' # <<>>
           /\ Last(recorded') = Snap(fileSize, fileSize, Done)
           /\ outcome'.kind = "resolved"
           /\ outcome'.value = Digest(fileContent)
           /\ outcome'.value = sha256
           /\ finishUrl.id = outcome'.value
           /\ \A j \in 1..Len(requests) :
                  requests[j].url.id = outcome'.value]_vars

C11_Witness ==
    /\ pc = "resolved"
    /\ outcome.value = sha256
    /\ response.hash = DEFAULT_HASH_ALG \o <<"=">> \o sha256
    /\ Len(requests) = 2
    /\ finishUrl.id = sha256

\* C12: the finalize hook is invoked at most once per call, with the upload
\* identifier as its argument, and only when every chunk request succeeded
\* and the one finish response matched; with a hook configured Done is the
\* latest snapshot only after the hook resolved; a hook that rejected
\* leaves the call rejected with the hook's failure and Error recorded.
C12_FinalizeHook ==
    /\ Len(hookCalls) <= 1
    /\ ~hasFinalize => hookCalls = <<>>
    /\ hookCalls # <<>> =>
           /\ hookCalls[1] = Digest(fileContent)
           /\ hookCalls[1] = upload_id
           /\ \A k \in DOMAIN xhrState : xhrState[k] = "loaded"
           /\ finishCalls = 1
           /\ ResponseMatches
    /\ (hasFinalize /\ lastProgress.state = Done) => hookState = "resolved"
    /\ (hasFinalize /\ pc = "resolved") => hookState = "resolved"
    /\ hookState = "rejected" =>
           /\ pc = "rejected"
           /\ outcome.kind = "rejected"
           /\ outcome.error = Wrap(ErrHook)
           /\ lastProgress.state = Error

C12_Witness ==
    /\ hookState = "rejected"
    /\ hookCalls = <<sha256>>
    /\ pc = "rejected"
    /\ lastProgress = Snap(fileSize, fileSize, Error)

\* C13: no chunk index is requested twice, and a chunk request that ended
\* with a non-2xx status or a network error is the last request of the
\* call: no finish request is issued, Error is the latest snapshot and
\* upload() is rejected with that chunk failure.
C13_NoRetry ==
    /\ \A j, k \in 1..Len(requests) :
           requests[j].index = requests[k].index => j = k
    /\ \A k \in DOMAIN xhrState :
           xhrState[k] \in {"status", "error"} =>
               /\ Len(requests) = k + 1
               /\ Last(requests).index = k
               /\ finishCalls = 0
               /\ pc = "rejected"
               /\ outcome.kind = "rejected"
               /\ outcome.error =
                      IF xhrState[k] = "status" THEN ErrChunkStatus
                      ELSE ErrNetwork
               /\ lastProgress.state = Error

C13_Witness ==
    /\ Len(requests) = 2
    /\ xhrState[1] = "status"
    /\ NumChunks(size, fileSize) = 3
    /\ pc = "rejected"

\* The planned number of chunks, stated without the code's arithmetic: 1
\* for a whole-file upload, else the least n with n * size >= fileSize.
PlannedChunks ==
    IF size = -1 \/ size >= fileSize
    THEN 1
    ELSE CHOOSE n \in 1..fileSize :
             (n - 1) * size < fileSize /\ fileSize <= n * size

\* C14: a call in which abort() never ran and which resolved has sent the
\* planned chunks exactly once each in ascending index order and then
\* exactly one finish request, and (unless abort() ran afterwards) Done
\* with uploaded = total is its latest snapshot; and a call without abort
\* in which every chunk, the finish verification and the hook succeeded
\* has resolved.
C14_HappyPath ==
    /\ (pc = "resolved" /\ abortedInCall = {}) =>
           /\ Len(requests) = PlannedChunks
           /\ \A j \in 1..Len(requests) : requests[j].index = j - 1
           /\ \A k \in DOMAIN xhrState : xhrState[k] = "loaded"
           /\ finishCalls = 1
           /\ ~aborted => lastProgress = Snap(fileSize, fileSize, Done)
    /\ ( /\ abortedInCall = {}
         /\ ResponseMatches
         /\ hasFinalize => hookState = "resolved" )
       => pc = "resolved"

C14_Witness ==
    /\ pc = "resolved"
    /\ ~aborted
    /\ fileSize = 3
    /\ size = 2
    /\ Len(requests) = 2
    /\ requests[2].end - requests[2].start = 1
    /\ finishCalls = 1
    /\ lastProgress = Snap(3, 3, Done)

\* The first report of a step is forced unless it is the Uploading tick of
\* a transport event (lines 462-470 and 486-495), which only a step taken
\* while a chunk request is outstanding makes.
FirstIsForced == ~(pc = "sending" /\ recorded'[1].state = Uploading)

\* The first report of the step was handed to the observer.
FirstDelivered == delivered' # <<>> /\ delivered'[1] = recorded'[1]

\* C15 as stated: with a (non-raising) observer registered, a report is
\* delivered if and only if it is forced, or its state is Initializing,
\* Finishing, Done or Error, or the time since the last delivered
\* notification exceeds the interval, or the byte delta since the last
\* delivered value exceeds the threshold.
C15_DeliveredIffExceeds ==
    [][(progressCallback # NoCb /\ ~Raises(progressCallback)
            /\ recorded' # <<>>) =>
           (FirstDelivered <=>
                \/ FirstIsForced
                \/ recorded'[1].state \in importantStates
                \/ now - lastProgressReportTime > progressIntervalMs
                \/ recorded'[1].uploaded - lastReportedUploaded
                       > progressBytesThreshold)]_vars

\* C15 amended: with an observer registered, a report is delivered if and
\* only if it is forced, or its state is Initializing, Finishing, Done or
\* Error, or the time since lastProgressReportTime (the time of the last
\* report an observer returned from normally, 0 if none) is at least the
\* interval, or the byte delta since lastReportedUploaded (the uploaded
\* value of that report) is at least the threshold; without an observer
\* nothing is delivered.
C15_DeliveredIffAtLeast ==
    [][recorded' # <<>> =>
           IF progressCallback = NoCb
           THEN delivered' = <<>>
           ELSE FirstDelivered <=>
                    \/ FirstIsForced
                    \/ recorded'[1].state \in importantStates
                    \/ now - lastProgressReportTime >= progressIntervalMs
                    \/ recorded'[1].uploaded - lastReportedUploaded
                           >= progressBytesThreshold]_vars

C15_Witness ==
    /\ pc = "sending"
    /\ progressCallback = "cb1"
    /\ recorded # <<>>
    /\ recorded[1].state = Uploading
    /\ recorded[1].uploaded = lastReportedUploaded + 1
    /\ delivered = <<>>
    /\ now = lastProgressReportTime + 1

\* C16: when the latest report was delivered to the observer, a non-forced
\* Uploading tick that follows it at the same instant with a byte delta
\* below the threshold is not delivered (at most one notification per
\* interval-long window), while every Initializing, Finishing, Done and
\* Error report of a step is delivered.
C16_OnePerWindow ==
    [][(progressCallback # NoCb /\ recorded' # <<>>) =>
           /\ ( /\ pc = "sending"
                /\ recorded # <<>>
                /\ delivered # <<>>
                /\ Last(delivered) = Last(recorded)
                /\ recorded'[1].state = Uploading
                /\ recorded'[1].uploaded - Last(delivered).uploaded
                       < progressBytesThreshold )
              => ~FirstDelivered
           /\ \A j \in 1..Len(recorded') :
                  recorded'[j].state \in importantStates =>
                      \E k \in 1..Len(delivered') :
                          delivered'[k] = recorded'[j]]_vars

\* C17: the last report of every step, delivered or not and with or
\* without an observer, is the latest recorded snapshot after the step,
\* and a step without a report leaves the snapshot alone; the step that
\* registers an observer hands it exactly one snapshot, the latest
\* recorded one, and records nothing.
C17_LatestSnapshot ==
    [][/\ recorded' # <<>> => lastProgress' = Last(recorded')
       /\ recorded' = <<>> => lastProgress' = lastProgress
       /\ (progressCallback' # progressCallback
               /\ progressCallback' # NoCb) =>
              /\ delivered' = <<lastProgress>>
              /\ recorded' = <<>>]_vars

C17_Witness ==
    /\ progressCallback = "cb2"
    /\ recorded = <<>>
    /\ delivered = <<lastProgress>>
    /\ lastProgress.state = Uploading
    /\ lastProgress.uploaded = 1
    /\ lastProgressReportTime = 0

\* The snapshots a report of this call may carry.
ReportSnaps == {Snap(u, fileSize, st) : u \in 0..fileSize, st \in UploadState}

\* C18: no exception of an observer leaves onprogress(), abort() or any
\* step of upload(), and in every reachable state a report made with a
\* raising observer records the same snapshot and raises as little as the
\* same report made with a non-raising observer or with none: the
\* observer reaches the requests, the snapshots and the settlement only
\* through the throttle fields and the notifications themselves.
C18_ObserverIsolated ==
    /\ ~escaped
    /\ \A st \in ReportSnaps, force \in BOOLEAN, r \in RaisingObservers,
          c \in Observers \cup {NoCb} :
           LET withR == reportProgressWith(r, Agg0, st, force)
               withC == reportProgressWith(c, Agg0, st, force)
           IN  /\ withR.last = withC.last
               /\ withR.rec = withC.rec
               /\ withR.threw = withC.threw
               /\ ~withR.threw

C18_Witness ==
    /\ pc = "resolved"
    /\ progressCallback = "cb2"
    /\ aborted
    /\ abortedInCall = {"hook"}
    /\ delivered # <<>>
    /\ Last(delivered).state = Done
    /\ lastProgressReportTime = 0
    /\ ~escaped

\* C19: abort() raises in no state, before, during or after upload(), and
\* sets the abort flag; an aborted cancellation signal stays aborted, and
\* abort() on it fires no listener again (the position of upload(), the
\* pending rejection and the requests are left alone); abort() called when
\* the flag is set and Error is the latest snapshot leaves the flag, the
\* signal and the latest snapshot as they are.
C19_AbortIdempotent ==
    [][/\ abortController = "aborted" => abortController' = "aborted"
       /\ Abort =>
              /\ ~escaped'
              /\ aborted'
              /\ abortController \in {"none", "aborted"} =>
                     /\ abortController' = abortController
                     /\ pc' = pc
                     /\ pendingError' = pendingError
                     /\ xhrState' = xhrState
                     /\ listeners' = listeners
              /\ (aborted /\ lastProgress.state = Error) =>
                     /\ aborted' = aborted
                     /\ abortController' = abortController
                     /\ lastProgress' = lastProgress]_vars

C19_Witness ==
    /\ abortedInCall = {"sending", "chunkRejected"}
    /\ pc = "chunkRejected"
    /\ aborted
    /\ abortController = "aborted"
    /\ progressCallback = "cb2"
    /\ Len(delivered) = 1
    /\ lastProgress.state = Error
    /\ ~escaped

\* C20: the call plans exactly one chunk covering the whole file when size
\* is -1 or at least fileSize, and otherwise ceil(fileSize / size) chunks:
\* no more requests than planned are issued, all planned ones have been
\* issued when the finish request is, every request but the last planned
\* one carries size bytes, and the last planned one carries the remainder
\* fileSize - (n - 1) * size.
C20_ChunkPlan ==
    LET n == PlannedChunks
        c == IF size = -1 \/ size >= fileSize THEN fileSize ELSE size
    IN  /\ Len(requests) <= n
        /\ finishCalls > 0 => Len(requests) = n
        /\ \A j \in 1..Len(requests) :
               requests[j].end - requests[j].start =
                   IF j < n THEN c ELSE fileSize - (n - 1) * c
        /\ (size = -1 \/ size >= fileSize) =>
               \A j \in 1..Len(requests) :
                   /\ requests[j].start = 0
                   /\ requests[j].end = fileSize

C20_Witness ==
    /\ pc = "finishFetch"
    /\ fileSize = 3
    /\ size = 2
    /\ Len(requests) = 2
    /\ requests[1].end - requests[1].start = 2
    /\ requests[2].end - requests[2].start = 1

\* C21: a chunk request carries a Range header exactly when more than one
\* chunk is planned; the header names the first and the last byte of the
\* chunk's range [start, end), so the header of each request begins one
\* byte after the header of the previous request ends.
C21_RangeHeader ==
    /\ \A j \in 1..Len(requests) :
           /\ requests[j].range.present <=> PlannedChunks > 1
           /\ requests[j].range.present =>
                  /\ requests[j].range.first = requests[j].start
                  /\ requests[j].range.last = requests[j].end - 1
                  /\ requests[j].range.first <= requests[j].range.last
    /\ \A j \in 1..(Len(requests) - 1) :
           requests[j].range.present =>
               requests[j + 1].range.first = requests[j].range.last + 1

C21_Witness ==
    /\ Len(requests) = 3
    /\ requests[3].range = [present |-> TRUE, first |-> 2, last |-> 2]
    /\ requests[1].range = [present |-> TRUE, first |-> 0, last |-> 0]

\* C22: the URL of every chunk request carries create=1 exactly when the
\* call was made with overwrite = false (the default); with overwrite =
\* true none carries it, and the finish URL never carries it.
C22_CreateMarker ==
    /\ \A j \in 1..Len(requests) :
           requests[j].url.create <=> (overwrite = FALSE)
    /\ ~finishUrl.create

C22_Witness ==
    /\ overwrite
    /\ callNo = 2
    /\ Len(requests) = 2
    /\ ~requests[1].url.create
    /\ ~requests[2].url.create
    /\ finishCalls = 1
    /\ finishUrl = FinishUrl(sha256)

\* C23: the identifier of a call is the digest of the file's content,
\* whatever the chunk size, the overwrite policy, the time and the calls
\* made before; a call on the same content as the previous call has the
\* previous call's identifier, in the URL of every chunk request and of the
\* finish request too; and a later call with overwrite = false whose chunk
\* request the server refused as a creation conflict is rejected with
\* Error as its latest snapshot, without finish request or finalize hook.
C23_ContentAddressed ==
    /\ upload_id # <<>> => upload_id = Digest(fileContent)
    /\ ( /\ prevCall.id # <<>>
         /\ upload_id # <<>>
         /\ prevCall.content = fileContent ) =>
           /\ upload_id = prevCall.id
           /\ \A j \in 1..Len(requests) : requests[j].url.id = prevCall.id
           /\ finishCalls > 0 => finishUrl.id = prevCall.id
    /\ ( /\ callNo >= 2
         /\ overwrite = FALSE
         /\ chunkFailStatus = ConflictStatus ) =>
           /\ pc = "rejected"
           /\ outcome.kind = "rejected"
           /\ outcome.error = ErrChunkStatus
           /\ lastProgress.state = Error
           /\ finishCalls = 0
           /\ hookCalls = <<>>

C23_Witness ==
    /\ callNo = 2
    /\ overwrite = FALSE
    /\ prevCall.content = fileContent
    /\ prevCall.id = upload_id
    /\ upload_id # <<>>
    /\ size = 1
    /\ now > progressIntervalMs + 1
    /\ chunkFailStatus = ConflictStatus
    /\ pc = "rejected"
    /\ lastProgress.state = Error

\* The text begins with "<alg>=" for the configured algorithm.
Prefixed(h) ==
    \E t \in ServerTexts : h = DEFAULT_HASH_ALG \o <<"=">> \o t

\* C24: the verifier removes "<alg>=" from a server hash that begins with
\* it and leaves any other server hash unchanged; so for a checksum that
\* does not itself begin with "<alg>=", both the prefixed and the
\* unprefixed form normalise to the checksum, and a response carrying
\* either form (and the right length) is accepted with the checksum as
\* the verified hash.
C24_PrefixStripped ==
    pc = "verified" =>
        LET h == response.hash
            p == DEFAULT_HASH_ALG \o <<"=">>
        IN  /\ Prefixed(h) => p \o hash = h
            /\ ~Prefixed(h) => hash = h
            /\ (~Prefixed(sha256) /\ h \in {sha256, p \o sha256}) =>
                   /\ hash = sha256
                   /\ outcome.kind = "resolved"
                   /\ outcome.value = sha256
            /\ outcome.kind = "resolved" => hash = sha256

C24_Witness ==
    /\ pc = "verified"
    /\ sha256 = <<"a", "=", "s">>
    /\ response.hash = <<"s", "=", "a", "=", "s">>
    /\ hash = sha256
    /\ outcome.kind = "resolved"

\* C25: under the fairness of SpecLive every upload() call that was made
\* eventually settles; abort() while a chunk request is outstanding settles
\* that request at once (it is aborted and its listener is gone), and from
\* there upload() rejects without any further transport event.
C25_Settles ==
    /\ (pc # "idle") ~> Settled
    /\ [](pc = "chunkRejected" =>
              /\ xhrState[i] = "aborted"
              /\ i \notin listeners
              /\ pendingError = ErrAborted)
    /\ (pc = "chunkRejected") ~> (pc = "rejected" /\ outcome.error = ErrAborted)

C25_Witness ==
    /\ pc = "rejected"
    /\ outcome.error = ErrAborted
    /\ i = 1
    /\ xhrState[1] = "aborted"
    /\ xhrState[0] = "loaded"
    /\ abortedInCall = {"sending"}

\* C26: a step records Finishing only when every planned chunk request has
\* ended with a 2xx status, and the snapshot has uploaded = total =
\* fileSize; a finish request is issued only by a step that has recorded
\* Finishing before it; and once a finish request was issued every chunk
\* request of the plan has succeeded (none is outstanding, none failed).
C26_FinishingOrder ==
    [][/\ (\E j \in 1..Len(recorded') : recorded'[j].state = Finishing) =>
              /\ Len(requests') = PlannedChunks
              /\ \A k \in DOMAIN xhrState' : xhrState'[k] = "loaded"
              /\ \A j \in 1..Len(recorded') :
                     recorded'[j].state = Finishing =>
                         recorded'[j] = Snap(fileSize, fileSize, Finishing)
       /\ finishCalls' # finishCalls =>
              /\ finishCalls' = finishCalls + 1
              /\ recorded' # <<>>
              /\ Last(recorded').state = Finishing
              /\ pc' = "finishFetch"
       /\ finishCalls' > 0 =>
              /\ Len(requests') = PlannedChunks
              /\ \A k \in DOMAIN xhrState' : xhrState'[k] = "loaded"
              /\ pc' # "sending"]_vars

C26_Witness ==
    /\ pc = "finishFetch"
    /\ finishCalls = 1
    /\ lastProgress = Snap(fileSize, fileSize, Finishing)
    /\ Len(recorded) = 2
    /\ recorded[1].state = Uploading
    /\ Len(requests) = 3

\* C27: a call in which abort() ran while the checksum was being computed
\* issues no chunk request and no finish request; once the computation has
\* ended the call is rejected with Error as its latest snapshot, and when
\* the checksum was computed the rejection is the aborted condition.
C27_AbortWhileHashing ==
    "hashing" \in abortedInCall =>
        /\ requests = <<>>
        /\ finishCalls = 0
        /\ hookCalls = <<>>
        /\ pc \in {"hashing", "rejected"}
        /\ pc = "rejected" =>
               /\ outcome.kind = "rejected"
               /\ lastProgress.state = Error
               /\ sha256 # <<>> => outcome.error = ErrAbortedDuringChunk

C27_Witness ==
    /\ "hashing" \in abortedInCall
    /\ pc = "rejected"
    /\ sha256 # <<>>
    /\ outcome.error = ErrAbortedDuringChunk
    /\ Len(recorded) = 2
    /\ Last(recorded) = Snap(0, fileSize, Error)
    /\ requests = <<>>

\* The call failed on the status of its finish response: it is rejected
\* with the finish failure, Error with uploaded = total is the latest
\* snapshot, the body was not read and the finalize hook was not invoked.
FinishStatusFailure ==
    /\ pc = "rejected"
    /\ outcome.kind = "rejected"
    /\ outcome.error = Wrap(ErrFinishStatus)
    /\ lastProgress = Snap(fileSize, fileSize, Error)
    /\ ~response.parsed
    /\ hookCalls = <<>>

\* With a matching response the call went on to the hook, or to Done.
FinishProceeded ==
    IF hasFinalize THEN hookCalls # <<>> ELSE pc = "resolved"

\* C28 as stated: a finish response with a non-success (non-2xx) status is
\* a hard failure, and with a success (2xx) status the call does not fail
\* on the status: it proceeds when hash and length match.
C28_FinishSuccessStatus ==
    /\ (finishStatus # 0 /\ (finishStatus < 200 \/ finishStatus >= 300)) =>
           FinishStatusFailure
    /\ (finishStatus >= 200 /\ finishStatus < 300) =>
           /\ outcome.error # Wrap(ErrFinishStatus)
           /\ ResponseMatches => FinishProceeded

\* C28 amended: a finish response with any status other than 200 is a hard
\* failure, and with status 200 the call does not fail on the status: it
\* proceeds when hash and length match.
C28_FinishStatus200 ==
    /\ (finishStatus # 0 /\ finishStatus # 200) => FinishStatusFailure
    /\ finishStatus = 200 =>
           /\ outcome.error # Wrap(ErrFinishStatus)
           /\ ResponseMatches => FinishProceeded

C28_Witness ==
    /\ finishStatus = 201
    /\ pc = "rejected"
    /\ outcome.error = Wrap(ErrFinishStatus)
    /\ lastProgress = Snap(fileSize, fileSize, Error)
    /\ Len(recorded) = 2

\* C29: a parsed finish response (status 200) without a hash field or
\* without a length field leaves the call rejected with the "no hash
\* returned" failure, Error with uploaded = total as the latest snapshot
\* (so not Done), and the finalize hook not invoked.
C29_MissingFields ==
    (response.parsed /\ (~response.hasHash \/ ~response.hasLength)) =>
        /\ finishStatus = 200
        /\ pc = "rejected"
        /\ outcome.kind = "rejected"
        /\ outcome.error = Wrap(ErrNoHash)
        /\ lastProgress = Snap(fileSize, fileSize, Error)
        /\ hookCalls = <<>>
        /\ hookState = "none"

C29_Witness ==
    /\ response.parsed
    /\ ~response.hasLength
    /\ response.hasHash
    /\ response.hash = sha256
    /\ hasFinalize
    /\ pc = "rejected"
    /\ outcome.error = Wrap(ErrNoHash)

\* The planned length of chunk k (k counted from 0).
PlannedLength(k) ==
    LET c == IF size = -1 \/ size >= fileSize THEN fileSize ELSE size
    IN  IF k + 1 < PlannedChunks
        THEN c
        ELSE fileSize - (PlannedChunks - 1) * c

\* C30: after every step each entry of the progress vector lies between 0
\* and the length of its chunk, no entry is smaller than before the step,
\* the entry of a chunk whose request has not been sent is 0, and every
\* Uploading snapshot the step recorded has uploaded = min(total, sum of
\* the entries).
C30_ProgressVector ==
    [][/\ \A k \in DOMAIN progressPerChunk' :
              /\ 0 <= progressPerChunk'[k]
              /\ progressPerChunk'[k] <= PlannedLength(k)
              /\ xhrState'[k] = "unsent" => progressPerChunk'[k] = 0
       /\ DOMAIN progressPerChunk' = DOMAIN progressPerChunk =>
              \A k \in DOMAIN progressPerChunk :
                  progressPerChunk'[k] >= progressPerChunk[k]
       /\ \A j \in 1..Len(recorded') :
              recorded'[j].state = Uploading =>
                  /\ recorded'[j].total = fileSize
                  /\ recorded'[j].uploaded =
                         Min(fileSize, Sum(progressPerChunk'))]_vars

C30_Witness ==
    /\ pc = "sending"
    /\ i = 1
    /\ progressPerChunk = [k \in 0..2 |-> IF k = 2 THEN 0 ELSE 1]
    /\ xhrState[1] = "pending"
    /\ xhrState[2] = "unsent"
    /\ recorded = <<Snap(2, 3, Uploading)>>

\* The ways in which the request of a chunk settles.
SettledMarks == {"loaded", "status", "error", "aborted", "sendthrew"}

\* C31: the abort listener of a chunk lives only while the request of that
\* chunk is outstanding: after every step each listener on the signal
\* belongs to a pending request, so none belongs to a request that settled
\* by success, non-2xx status, network error, abort or a throwing send();
\* and no step, abort() included, changes how a settled request ended.
C31_ListenerLifetime ==
    [][/\ \A k \in listeners' :
              /\ k \in DOMAIN xhrState'
              /\ xhrState'[k] = "pending"
       /\ DOMAIN xhrState' = DOMAIN xhrState =>
              \A k \in DOMAIN xhrState :
                  xhrState[k] \in SettledMarks =>
                      xhrState'[k] = xhrState[k]]_vars

\* abort() was called after the call had settled with the first chunk
\* uploaded and the second one failed.
C31_Witness ==
    /\ pc = "rejected"
    /\ aborted
    /\ abortedInCall = {}
    /\ Len(requests) = 2
    /\ xhrState[0] = "loaded"
    /\ xhrState[1] \in {"status", "error"}
    /\ listeners = {}

AllObservers == Observers \cup RaisingObservers

\* C32: one observer at most is registered, and the notifications of a step
\* go to it (lines 305 and 355).  A call of onprogress(cb) makes cb the
\* registered observer, whoever was registered before, and notifies it at
\* once; a call of the unsubscribe handle of cb clears the registration
\* only if cb is the registered observer and leaves another observer in
\* place; no other step changes the registration; and while no observer is
\* registered a step delivers nothing.
C32_SingleObserver ==
    [][/\ progressCallback' \in AllObservers \cup {NoCb}
       /\ \A cb \in handles' \ handles :
              /\ progressCallback' = cb
              /\ delivered' = <<lastProgress>>
       /\ \A cb \in handles \ handles' :
              /\ progressCallback' =
                     IF progressCallback = cb THEN NoCb ELSE progressCallback
              /\ delivered' = <<>>
       /\ handles' = handles =>
              /\ progressCallback' = progressCallback
              /\ progressCallback = NoCb => delivered' = <<>>]_vars

\* cb2 was registered after cb1, whose handle has not been called, and a
\* step of the call has just notified cb2.
C32_Witness ==
    /\ handles = {"cb1", "cb2"}
    /\ progressCallback = "cb2"
    /\ pc = "sending"
    /\ recorded # <<>>
    /\ delivered = recorded

\* The rejections that carry an aborted condition.
AbortErrors == {ErrAborted, ErrAbortedDuringChunk, Wrap(ErrFetchAbort)}

\* C33: a step that starts the followed upload() call leaves the abort
\* flag clear and the controller fresh; a call during which abort() has
\* not run is not rejected with an aborted condition, whatever abort() did
\* before it; and once abort() has run while the call was computing its
\* checksum or sending a chunk, the call issues no further chunk request
\* and no finish request and does not resolve, other upload() calls on the
\* client notwithstanding.
C33_CleanCancellation ==
    [][/\ (myCall' # myCall) =>
              /\ ~aborted'
              /\ abortController' = "fresh"
              /\ abortedInCall' = {}
       /\ abortedInCall' = {} => outcome'.error \notin AbortErrors
       /\ (~Settled /\ abortedInCall \cap {"hashing", "sending"} # {}) =>
              /\ requests' = requests
              /\ finishCalls' = finishCalls
              /\ pc' # "resolved"]_vars

\* C34: with an empty file, or a chunk size of 0 or below -1, the step in
\* which upload() settles leaves a terminal snapshot as the latest one:
\* Done when it resolves and Error when it rejects, never Initializing or
\* Uploading.
C34_DegenerateSettles ==
    [][(~Settled /\ Settled') =>
           \/ pc' = "resolved" /\ lastProgress'.state = Done
           \/ pc' = "rejected" /\ lastProgress'.state = Error]_vars

\* An Error snapshot was recorded for the call because a chunk failed or
\* abort() was called.
LegacyErrorSeen ==
    \/ \E k \in DOMAIN xhrState : xhrState[k] = "failed"
    \/ aborted /\ pc # "idle"

\* C35: in the legacy client every snapshot a step records has
\* uploaded <= total, and once a chunk has failed or abort() has been
\* called, the completion of another chunk request records no snapshot
\* whose state is not Error.
C35_LegacyConcurrent ==
    [][/\ \A j \in 1..Len(recorded') :
              recorded'[j].uploaded <= recorded'[j].total
       /\ (LegacyErrorSeen /\ xhrState' # xhrState) =>
              \A j \in 1..Len(recorded') : recorded'[j].state = Error]_vars

=============================================================================
